---- MODULE Spec2Model ----
(***************************************************************************)
(* Verification model of the TFBP REST backend (FastAPI routers over one   *)
(* shared VirtualDB handle guarded by one threading.Lock).                 *)
(*                                                                         *)
(* Two specifications share the module:                                    *)
(*   Spec         the concurrency guard: several requests, the lock, the   *)
(*                shared handle and active-set reconfiguration;            *)
(*   SpecRequest  one request run to completion against a live schema      *)
(*                drawn from bounded sets (intersection, paginated         *)
(*                listing, multi-dataset filter values).                   *)
(*                                                                         *)
(* Strings are sequences of one-character strings, so that validation,     *)
(* suffixing, escaping and ordering are computed as the code computes      *)
(* them.                                                                   *)
(***************************************************************************)
EXTENDS Integers, Sequences, FiniteSets, TLC

(***************************************************************************)
(* Characters and identifiers                                              *)
(***************************************************************************)
Lower == {"a","b","c","d","e","f","g","h","i","j","k","l","m",
          "n","o","p","q","r","s","t","u","v","w","x","y","z"}
Upper == {"A","B","C","D","E","F","G","H","I","J","K","L","M",
          "N","O","P","Q","R","S","T","U","V","W","X","Y","Z"}
Digit == {"0","1","2","3","4","5","6","7","8","9"}
Letter == Lower \cup Upper
NL == "\n"

\* The text of _IDENTIFIER_RE, ^[A-Za-z_][A-Za-z0-9_]*$, read strictly.
IsIdentifier(s) ==
    /\ Len(s) >= 1
    /\ s[1] \in Letter \cup {"_"}
    /\ \A i \in 2..Len(s) : s[i] \in Letter \cup Digit \cup {"_"}

\* _IDENTIFIER_RE.match(name): Python's `$` also matches just before one
\* trailing line break.
IdentifierReMatch(s) ==
    \/ IsIdentifier(s)
    \/ /\ Len(s) >= 2
       /\ s[Len(s)] = NL
       /\ IsIdentifier(SubSeq(s, 1, Len(s) - 1))

\* _validate_identifier(name): TRUE when the name is returned, FALSE when
\* ValueError("Invalid identifier") is raised.
_validate_identifier(name) == IdentifierReMatch(name)

(***************************************************************************)
(* State                                                                   *)
(***************************************************************************)
VARIABLES
    \* --- the concurrency guard (Spec) ---
    vdb,        \* app.state.vdb: id of the installed handle
    handles,    \* handle id -> [complete, cfg]: every VirtualDB object made
    lock,       \* app.state.vdb_lock: 0 when free, else the holding request
    disk,       \* content of the configuration file at settings.config_path
    req,        \* request -> its handler's local state
    access,     \* the most recent access to a handle (history variable)
    \* --- one request against a live schema (SpecRequest) ---
    world,      \* the live schema and data behind the handle
    body,       \* the request body
    pc,         \* position of the handler
    idx,        \* position in body.datasets of the loop
    calls,      \* engine calls issued so far, in order
    regulator_sets, \* compute_intersection: dataset -> set of strings
    results,    \* binding/perturbation: entries appended so far
    unique_values,  \* analysis.filter_options: strings collected so far
    response    \* what the client receives

guardVars == <<vdb, handles, lock, disk, req, access>>
requestVars == <<world, body, pc, idx, calls, regulator_sets, results,
                 unique_values, response>>
vars == <<vdb, handles, lock, disk, req, access, world, body, pc, idx, calls,
          regulator_sets, results, unique_values, response>>

(***************************************************************************)
(* Names used by the requests                                              *)
(***************************************************************************)
harbison == <<"h","a","r","b","i","s","o","n">>
drop_table == <<"d","r","o","p"," ","t","a","b","l","e">>
NoName == <<>>
\* Values of a {table} or {db_name} path parameter.
PathNames == {harbison, drop_table}

(***************************************************************************)
(* The concurrency guard: handlers as the routers declare them             *)
(***************************************************************************)
\* Bounds of the guard model.
MaxCalls == 2       \* engine calls one multi-statement request issues
\* Two requests in flight, each served once.
Requests == {1, 2}

\* `with lock:` around exactly one engine call.
SingleCall == {"health_check", "list_tables", "get_common_fields",
               "describe_table", "get_fields", "sample_rows",
               "distinct_values", "row_count"}
\* `with lock:` around a data-dependent sequence of engine calls.
MultiStatement == {"filter_options", "compute_intersection", "source_summary",
                   "binding_analysis", "perturbation_analysis",
                   "correlation_matrix", "analysis_filter_options"}
\* Handlers that take the handle but not the lock.
Unlocked == {"list_datasets", "dataset_catalog"}
Handlers == SingleCall \cup MultiStatement \cup Unlocked
              \cup {"execute_query", "sync_active_set_config"}

\* Handlers with a table / db_name path parameter.
TakesTable(op) == op \in {"describe_table", "get_fields", "sample_rows",
                          "distinct_values", "row_count", "filter_options",
                          "source_summary"}
\* ... and those that pass it through _validate_identifier before the lock.
ValidatesTable(op) == op \in {"sample_rows", "distinct_values", "row_count",
                              "filter_options", "source_summary"}

\* The engine methods a handler calls inside its critical section.
EngineKinds == {"tables", "fields", "describe", "query", "get_common_fields"}
KindsOf(op) ==
    CASE op \in {"health_check", "list_tables"} -> {"tables"}
      [] op = "get_common_fields" -> {"get_common_fields"}
      [] op = "describe_table" -> {"describe"}
      [] op = "get_fields" -> {"fields"}
      [] op \in {"sample_rows", "distinct_values", "row_count",
                 "execute_query"} -> {"query"}
      [] op = "filter_options" -> {"fields", "describe", "query"}
      [] op = "compute_intersection" -> {"fields", "query"}
      [] op = "source_summary" -> {"tables", "fields", "describe", "query"}
      [] op \in {"binding_analysis", "perturbation_analysis",
                 "correlation_matrix", "analysis_filter_options"}
            -> {"tables", "fields", "query"}
      [] OTHER -> {}

\* Fewest and most engine calls of a critical section that ends normally.
MinCallsOf(op) ==
    CASE op \in SingleCall -> 1
      [] op = "execute_query" -> 2
      [] op = "compute_intersection" -> 0    \* empty dataset list
      [] OTHER -> 1
MaxCallsOf(op) ==
    CASE op \in SingleCall -> 1
      [] op = "execute_query" -> 2
      [] OTHER -> MaxCalls

\* The catalog entries the guard model selects from (id, selectable) and the
\* (repo_id, config_name) keys a selection writes.
CatalogIds == {"harbison", "rossi_combined", "hu_reimand"}
Selectable(id) == id \in {"harbison", "rossi_combined"}
KeysOf(id) ==
    CASE id = "harbison" -> {<<"BrentLab/harbison_2004", "harbison_2004">>}
      [] id = "rossi_combined" ->
            {<<"BrentLab/rossi_2021", "rossi_2021_af_combined">>,
             <<"BrentLab/rossi_2021", "rossi_2021_metadata_sample">>}
      [] OTHER -> {}
MANAGED_DATASET_KEYS ==
    UNION {KeysOf(id) : id \in {i \in CatalogIds : Selectable(i)}}
\* A (repo, config) entry of the file that the catalog does not manage.
UnmanagedKey == <<"BrentLab/other", "other_config">>
\* body.dataset_ids of the modelled reconfiguration requests.
SyncBodies == {<< >>, <<"harbison">>, <<"rossi_combined", "harbison">>,
               <<"harbison", "harbison">>, <<"hu_reimand">>, <<"nosuch">>}

IdleReq == [op |-> "none", pc |-> "idle", ref |-> 0, name |-> NoName,
            issued |-> 0, ids |-> << >>, payload |-> {}, built |-> 0]
NoAccess == [by |-> 0, kind |-> "none", name |-> NoName, held |-> TRUE,
             installed |-> TRUE]

(***************************************************************************)
(* Active-set reconfiguration: pure parts                                  *)
(***************************************************************************)
\* sync_active_set_config, the loop over body.dataset_ids: duplicates are
\* skipped, an unknown or non-selectable id raises ValueError.
RECURSIVE SelectItems(_, _, _)
SelectItems(ids, seen, selected_items) ==
    IF ids = << >> THEN [ok |-> TRUE, items |-> selected_items]
    ELSE LET dataset_id == Head(ids) IN
         IF dataset_id \in seen
           THEN SelectItems(Tail(ids), seen, selected_items)
         ELSE IF dataset_id \notin CatalogIds
           THEN [ok |-> FALSE, items |-> << >>]
         ELSE IF ~Selectable(dataset_id)
           THEN [ok |-> FALSE, items |-> << >>]
         ELSE SelectItems(Tail(ids), seen \cup {dataset_id},
                          Append(selected_items, dataset_id))

\* _prune_managed_dataset_entries then _append_selected_datasets, on the set
\* of (repo_id, config_name) keys of the payload.
_prune_managed_dataset_entries(keys) == keys \ MANAGED_DATASET_KEYS
_append_selected_datasets(keys, items) ==
    keys \cup UNION {KeysOf(items[i]) : i \in 1..Len(items)}

(***************************************************************************)
(* The concurrency guard: actions                                          *)
(***************************************************************************)
\* FastAPI resolves Depends(get_vdb) and Depends(get_vdb_lock) when the
\* request arrives: the handler's `vdb` is the handle installed at that time.
\* Path parameters are validated first thing in the handlers that validate.
Arrive(r, op, name) ==
    /\ req[r].pc = "idle"
    /\ op \in Handlers \ {"sync_active_set_config"}
    /\ name \in (IF TakesTable(op) THEN PathNames ELSE {NoName})
    /\ req' = [req EXCEPT ![r] =
            [IdleReq EXCEPT !.op = op, !.ref = vdb, !.name = name,
                !.pc = IF ValidatesTable(op) /\ ~_validate_identifier(name)
                         THEN "failed" ELSE "wait"]]
    /\ UNCHANGED <<vdb, handles, lock, disk, access>>

\* `with lock:` entry: blocks until the lock is free.
AcquireNoWait(r) ==
    /\ req[r].pc = "wait"
    /\ req[r].op \notin Unlocked
    /\ lock' = r
    /\ req' = [req EXCEPT ![r].pc = "run"]
    /\ UNCHANGED <<vdb, handles, disk, access>>
Acquire(r) ==
    /\ req[r].pc = "wait"
    /\ req[r].op \notin Unlocked
    /\ lock = 0
    /\ lock' = r
    /\ req' = [req EXCEPT ![r].pc = "run"]
    /\ UNCHANGED <<vdb, handles, disk, access>>

\* One engine call inside the critical section, on the handle the request
\* was given. describe_table and get_fields pass the raw path parameter.
EngineCall(r, kind) ==
    /\ req[r].pc = "run"
    /\ req[r].op # "sync_active_set_config"
    /\ kind \in KindsOf(req[r].op)
    /\ req[r].issued < MaxCallsOf(req[r].op)
    /\ access' = [by |-> r, kind |-> kind, held |-> (lock = r),
                  installed |-> (req[r].ref = vdb),
                  name |-> IF TakesTable(req[r].op)
                                /\ kind \in {"fields", "describe", "query"}
                             THEN req[r].name ELSE NoName]
    /\ req' = [req EXCEPT ![r].issued = @ + 1]
    /\ UNCHANGED <<vdb, handles, lock, disk>>

\* An exception inside the critical section (an HTTPException or ValueError
\* of the handler, or an error of the engine): the with-statement releases.
RaiseHolding(r) ==
    /\ req[r].pc = "run"
    /\ req[r].op # "sync_active_set_config"
    /\ req' = [req EXCEPT ![r].pc = "failed"]
    /\ UNCHANGED <<vdb, handles, lock, disk, access>>
Raise(r) ==
    /\ req[r].pc = "run"
    /\ req[r].op # "sync_active_set_config"
    /\ lock' = 0
    /\ req' = [req EXCEPT ![r].pc = "failed"]
    /\ UNCHANGED <<vdb, handles, disk, access>>

\* Normal end of the with-block.
Release(r) ==
    /\ req[r].pc = "run"
    /\ req[r].op # "sync_active_set_config"
    /\ req[r].issued >= MinCallsOf(req[r].op)
    /\ lock' = 0
    /\ req' = [req EXCEPT ![r].pc = "done"]
    /\ UNCHANGED <<vdb, handles, disk, access>>

\* list_datasets iterates vdb._db_name_map and calls vdb._is_comparative;
\* dataset_catalog reads vdb._db_name_map through _active_catalog_ids.
\* Neither handler takes the lock.
ReadMap(r) ==
    /\ req[r].pc = "wait"
    /\ req[r].op \in Unlocked
    /\ access' = [by |-> r, kind |-> "map", name |-> NoName,
                  held |-> (lock = r), installed |-> (req[r].ref = vdb)]
    /\ req' = [req EXCEPT ![r].pc = "done"]
    /\ UNCHANGED <<vdb, handles, lock, disk>>

\* sync_active_set_config takes the lock and the app, not the handle.
ArriveSync(r, ids) ==
    /\ req[r].pc = "idle"
    /\ ids \in SyncBodies
    /\ req' = [req EXCEPT ![r] =
            [IdleReq EXCEPT !.op = "sync_active_set_config", !.ids = ids,
                            !.pc = "select"]]
    /\ UNCHANGED <<vdb, handles, lock, disk, access>>

SyncSelect(r) ==
    /\ req[r].pc = "select"
    /\ LET s == SelectItems(req[r].ids, {}, << >>) IN
       req' = [req EXCEPT ![r].ids = s.items,
                          ![r].pc = IF s.ok THEN "load" ELSE "failed"]
    /\ UNCHANGED <<vdb, handles, lock, disk, access>>

\* _load_metadata_config: a file that is not a YAML dictionary raises.
SyncLoad(r) ==
    /\ req[r].pc = "load"
    /\ req' = [req EXCEPT ![r].payload = IF disk.ok THEN disk.keys ELSE {},
                          ![r].pc = IF disk.ok THEN "write" ELSE "failed"]
    /\ UNCHANGED <<vdb, handles, lock, disk, access>>

\* prune, append, _write_metadata_config: all before the lock is taken.
SyncWrite(r) ==
    /\ req[r].pc = "write"
    /\ disk' = [ok |-> TRUE,
                keys |-> _append_selected_datasets(
                            _prune_managed_dataset_entries(req[r].payload),
                            req[r].ids)]
    /\ req' = [req EXCEPT ![r].pc = "wait"]
    /\ UNCHANGED <<vdb, handles, lock, access>>

\* A constructor that would be given the payload the request wrote.
SyncConstructFromPayload(r) ==
    /\ req[r].pc = "run"
    /\ req[r].op = "sync_active_set_config"
    /\ handles' = Append(handles,
            [complete |-> FALSE,
             cfg |-> _append_selected_datasets(
                        _prune_managed_dataset_entries(req[r].payload),
                        req[r].ids)])
    /\ req' = [req EXCEPT ![r].built = Len(handles) + 1,
                          ![r].pc = "constructing"]
    /\ UNCHANGED <<vdb, lock, disk, access>>
\* VirtualDB(settings.config_path, ...) inside the lock: the constructor
\* reads the file as it is now; the object is not yet bound to app.state.
SyncConstructBegin(r) ==
    /\ req[r].pc = "run"
    /\ req[r].op = "sync_active_set_config"
    /\ handles' = Append(handles, [complete |-> FALSE, cfg |-> disk.keys])
    /\ req' = [req EXCEPT ![r].built = Len(handles) + 1,
                          ![r].pc = "constructing"]
    /\ UNCHANGED <<vdb, lock, disk, access>>

SyncConstructEnd(r) ==
    /\ req[r].pc = "constructing"
    /\ handles' = [handles EXCEPT ![req[r].built].complete = TRUE]
    /\ req' = [req EXCEPT ![r].pc = "built"]
    /\ UNCHANGED <<vdb, lock, disk, access>>

\* The constructor raises (datacard fetch or validation): the with-statement
\* releases the lock and app.state.vdb keeps its value.
SyncConstructFail(r) ==
    /\ req[r].pc = "constructing"
    /\ lock' = 0
    /\ req' = [req EXCEPT ![r].pc = "failed"]
    /\ UNCHANGED <<vdb, handles, disk, access>>

\* request.app.state.vdb = <the constructed object>
SyncInstallEarly(r) ==
    /\ req[r].pc \in {"constructing", "built"}
    /\ vdb' = req[r].built
    /\ req' = [req EXCEPT ![r].pc = "installed"]
    /\ UNCHANGED <<handles, lock, disk, access>>
SyncInstall(r) ==
    /\ req[r].pc = "built"
    /\ vdb' = req[r].built
    /\ req' = [req EXCEPT ![r].pc = "installed"]
    /\ UNCHANGED <<handles, lock, disk, access>>

SyncRelease(r) ==
    /\ req[r].pc = "installed"
    /\ lock' = 0
    /\ req' = [req EXCEPT ![r].pc = "done"]
    /\ UNCHANGED <<vdb, handles, disk, access>>

\* lifespan: the first handle is built from the configuration file and the
\* lock is created, before any request is served.
InitialDisks == {[ok |-> TRUE, keys |-> {UnmanagedKey}],
                 [ok |-> TRUE, keys |-> {UnmanagedKey} \cup KeysOf("harbison")]}
IdleRequestVars ==
    /\ world = [mode |-> "none"]
    /\ body = [op |-> "none"]
    /\ pc = "off"
    /\ idx = 0
    /\ calls = << >>
    /\ regulator_sets = << >>
    /\ results = << >>
    /\ unique_values = {}
    /\ response = [status |-> "none"]

Init ==
    /\ disk \in InitialDisks
    /\ handles = <<[complete |-> TRUE, cfg |-> disk.keys]>>
    /\ vdb = 1
    /\ lock = 0
    /\ req = [r \in Requests |-> IdleReq]
    /\ access = NoAccess
    /\ IdleRequestVars

Next ==
    \/ \E r \in Requests, op \in Handlers, name \in PathNames \cup {NoName} :
            Arrive(r, op, name) /\ UNCHANGED requestVars
    \/ \E r \in Requests : Acquire(r) /\ UNCHANGED requestVars
    \/ \E r \in Requests, kind \in EngineKinds :
            EngineCall(r, kind) /\ UNCHANGED requestVars
    \/ \E r \in Requests : Raise(r) /\ UNCHANGED requestVars
    \/ \E r \in Requests : Release(r) /\ UNCHANGED requestVars
    \/ \E r \in Requests : ReadMap(r) /\ UNCHANGED requestVars
    \/ \E r \in Requests, ids \in SyncBodies :
            ArriveSync(r, ids) /\ UNCHANGED requestVars
    \/ \E r \in Requests : SyncSelect(r) /\ UNCHANGED requestVars
    \/ \E r \in Requests : SyncLoad(r) /\ UNCHANGED requestVars
    \/ \E r \in Requests : SyncWrite(r) /\ UNCHANGED requestVars
    \/ \E r \in Requests : SyncConstructBegin(r) /\ UNCHANGED requestVars
    \/ \E r \in Requests : SyncConstructEnd(r) /\ UNCHANGED requestVars
    \/ \E r \in Requests : SyncConstructFail(r) /\ UNCHANGED requestVars
    \/ \E r \in Requests : SyncInstall(r) /\ UNCHANGED requestVars
    \/ \E r \in Requests : SyncRelease(r) /\ UNCHANGED requestVars

Spec == Init /\ [][Next]_vars

\* Scheduling: a thread that can enter the critical section, or is inside
\* it, is eventually run, and the engine's calls and the constructor return
\* or raise.
Step(r) ==
    /\ \/ Acquire(r)
       \/ \E kind \in EngineKinds : EngineCall(r, kind)
       \/ Raise(r)
       \/ Release(r)
       \/ SyncConstructBegin(r)
       \/ SyncConstructEnd(r)
       \/ SyncConstructFail(r)
       \/ SyncInstall(r)
       \/ SyncRelease(r)
    /\ UNCHANGED requestVars
Fairness == \A r \in Requests : WF_vars(Step(r))
SpecFair == Spec /\ Fairness

(***************************************************************************)
(* Claims about the concurrency guard (checked under Spec)                 *)
(***************************************************************************)
\* A multi-statement request between its first engine call and the end of
\* its critical section.
MidSequence(r) ==
    /\ req[r].op \in MultiStatement
    /\ req[r].pc = "run"
    /\ req[r].issued >= 1

\* C1: all engine calls of one multi-statement request (intersection,
\* correlation, filter-option derivation, paginated listing, source summary)
\* happen inside one uninterrupted hold of the lock: the request holds the
\* lock at each of its calls and from its first call on, and while it does no
\* other request issues an engine call and the shared handle is not replaced.
C1_SingleCriticalSection ==
    /\ [](\A r \in Requests : MidSequence(r) => lock = r)
    /\ [][\A r \in Requests :
            /\ (req[r].op \in MultiStatement
                    /\ req'[r].issued # req[r].issued)
                  => (lock = r /\ lock' = r)
            /\ MidSequence(r)
                  => /\ vdb' = vdb
                     /\ \A o \in Requests \ {r} :
                            req'[o].issued = req[o].issued]_vars

\* C1 witness: an intersection has issued its second engine call while a
\* reconfiguration request is waiting for the lock.
C1_Witness ==
    \E r \in Requests, o \in Requests :
        /\ req[r].op = "compute_intersection"
        /\ req[r].pc = "run"
        /\ req[r].issued = 2
        /\ req[o].op = "sync_active_set_config"
        /\ req[o].pc = "wait"

\* C2: reconfiguration replaces the shared handle in one step under the
\* lock: the shared reference always names a completely constructed handle,
\* and it changes only in a step of the request that holds the lock, to the
\* handle that request constructed.
C2_AtomicHandleSwap ==
    /\ [](handles[vdb].complete)
    /\ [][vdb' # vdb =>
            \E r \in Requests :
                /\ lock = r /\ lock' = r
                /\ req[r].op = "sync_active_set_config"
                /\ vdb' = req[r].built
                /\ handles[vdb'].complete
                /\ \A o \in Requests \ {r} : req[o].pc # "run"]_vars

\* C2 witness: the handle has been replaced while the other request, which
\* arrived before the swap, still waits for the lock.
C2_Witness ==
    \E r \in Requests, o \in Requests :
        /\ req[r].pc = "installed"
        /\ vdb = req[r].built
        /\ vdb # 1
        /\ req[o].pc = "wait"
        /\ req[o].op = "correlation_matrix"

\* C3: every access a request makes to the shared handle (tables, fields,
\* describe, query, reads of the dataset map) happens while that request
\* holds the lock.
C3_EveryAccessUnderLock == access.by # 0 => access.held

\* C4: every table or field name passed to the engine's fields/describe
\* operations or spliced into SQL text has passed validateIdentifier.
C4_EngineNamesValidated ==
    (access.kind \in {"fields", "describe", "query"} /\ access.name # NoName)
        => _validate_identifier(access.name)

\* A request at the `with lock:` statement, and one inside the block.
WaitsForLock(r) == req[r].pc = "wait" /\ req[r].op \notin Unlocked
InCriticalSection(r) ==
    req[r].pc \in {"run", "constructing", "built", "installed"}

\* C22: the lock is held exactly by a request inside its critical section,
\* so it is released when the operation completes or fails (an error raised
\* inside the section included); a request waiting for the lock stays
\* waiting while another holds it, with no cancellation or timeout, and
\* eventually enters the section.
C22_LockReleasedAndAcquired ==
    /\ [](\A r \in Requests : lock = r <=> InCriticalSection(r))
    /\ [][\A r \in Requests :
            (WaitsForLock(r) /\ lock # 0) => req'[r].pc = "wait"]_vars
    /\ \A r \in Requests : WaitsForLock(r) ~> (lock = r)
\* C22 witness: a request failed inside its critical section after an engine
\* call, and the request that was waiting now holds the lock.
C22_Witness ==
    \E r \in Requests, o \in Requests :
        /\ req[r].pc = "failed"
        /\ req[r].issued >= 1
        /\ lock = o
        /\ req[o].pc = "run"

\* C25: an engine call issued by a request that holds the lock goes to the
\* handle that is installed as the shared handle at that moment, also when
\* the request arrived before a reconfiguration and entered the critical
\* section after it.
C25_CallsOnInstalledHandle ==
    (access.by # 0 /\ access.held) => access.installed

IsSync(r) == req[r].op = "sync_active_set_config"
\* C26: a reconfiguration request that fails (unknown or non-selectable id,
\* malformed file, failure of the constructor) leaves the configuration on
\* disk and the shared handle as they were: while every reconfiguration so
\* far has failed, the file still holds what the first handle was built from
\* and that handle is still the installed one.
C26_FailedSyncChangesNothing ==
    (\A r \in Requests : IsSync(r) => req[r].pc = "failed") =>
        /\ vdb = 1
        /\ disk.keys = handles[1].cfg
        /\ disk.keys = handles[vdb].cfg

\* C27: once the reconfiguration requests made so far have all completed
\* successfully, in whatever interleaving of their unlocked file updates,
\* the installed handle is a complete one built from the content the file
\* holds now, the content of the last write.
C27_HandleMatchesDisk ==
    (/\ \E r \in Requests : IsSync(r)
     /\ \A r \in Requests : IsSync(r) => req[r].pc = "done") =>
        /\ handles[vdb].complete
        /\ handles[vdb].cfg = disk.keys
        /\ \E r \in Requests : IsSync(r) /\ vdb = req[r].built
\* C27 witness: two reconfigurations with different selections completed,
\* both writes having happened before either constructor read the file.
C27_Witness ==
    /\ \A r \in Requests : IsSync(r) /\ req[r].pc = "done"
    /\ req[1].ids # req[2].ids
    /\ Len(handles) = 3
    /\ handles[2].cfg = disk.keys
    /\ handles[3].cfg = disk.keys
    /\ \E r \in Requests :
            disk.keys # _append_selected_datasets(
                            _prune_managed_dataset_entries(req[r].payload),
                            req[r].ids)

(***************************************************************************)
(* One request against a live schema: names, values and the catalog        *)
(***************************************************************************)
rossi_combined == <<"r","o","s","s","i","_","c","o","m","b","i","n","e","d">>
rossi_combined_regmeta == <<"r","o","s","s","i","_","c","o","m","b","i","n","e","d","_","r","e","g","m","e","t","a">>
sample_id == <<"s","a","m","p","l","e","_","i","d">>
sra_accession == <<"s","r","a","_","a","c","c","e","s","s","i","o","n">>
id_ == <<"i","d">>
regulator_ == <<"r","e","g","u","l","a","t","o","r">>
tf_ == <<"t","f">>
regulator_symbol == <<"r","e","g","u","l","a","t","o","r","_","s","y","m","b","o","l">>
regulator_locus_tag == <<"r","e","g","u","l","a","t","o","r","_","l","o","c","u","s","_","t","a","g">>
gene_symbol == <<"g","e","n","e","_","s","y","m","b","o","l">>
carbon_source == <<"c","a","r","b","o","n","_","s","o","u","r","c","e">>
effect_ == <<"e","f","f","e","c","t">>
target_locus_tag == <<"t","a","r","g","e","t","_","l","o","c","u","s","_","t","a","g">>
nonexistent == <<"n","o","n","e","x","i","s","t","e","n","t">>
nonexistent_column == <<"n","o","n","e","x","i","s","t","e","n","t","_","c","o","l","u","m","n">>
\* A field name that is no identifier (DuckDB accepts any quoted name).
bad_field == <<"c"," ","s">>
_meta == <<"_","m","e","t","a">>

\* DATASET_CATALOG_BY_DB_NAME, the entries the model registers: db_name ->
\* the db_names of its supplemental_configs, in declared order.
CatalogDbNames == {harbison, rossi_combined}
SupplementalDbNames(db_name) ==
    IF db_name = rossi_combined THEN <<rossi_combined_regmeta>> ELSE << >>

\* Column values: a string, an integer or NULL, in one record shape.
StrV(s) == [t |-> "str", s |-> s, n |-> 0]
IntV(n) == [t |-> "int", s |-> << >>, n |-> n]
NullV == [t |-> "null", s |-> << >>, n |-> 0]

\* str(v) of Python / astype(str) of pandas, for the values above.
DigitOf(d) == <<"0","1","2","3","4","5","6","7","8","9">>[d + 1]
RECURSIVE Decimal(_)
Decimal(n) == IF n < 10 THEN <<DigitOf(n)>>
              ELSE Append(Decimal(n \div 10), DigitOf(n % 10))
Str(v) ==
    CASE v.t = "str" -> v.s
      [] v.t = "int" -> IF v.n < 0 THEN <<"-">> \o Decimal(-v.n)
                        ELSE Decimal(v.n)
      [] OTHER -> <<"N","o","n","e">>

\* Code-point order of the characters, and Python's order on str.
Ascii == <<NL, " ", "'", "-",
           "0","1","2","3","4","5","6","7","8","9",
           "A","B","C","D","E","F","G","H","I","J","K","L","M",
           "N","O","P","Q","R","S","T","U","V","W","X","Y","Z", "_",
           "a","b","c","d","e","f","g","h","i","j","k","l","m",
           "n","o","p","q","r","s","t","u","v","w","x","y","z">>
Code(c) == CHOOSE i \in 1..Len(Ascii) : Ascii[i] = c
RECURSIVE StrLess(_, _)
StrLess(a, b) ==
    IF b = << >> THEN FALSE
    ELSE IF a = << >> THEN TRUE
    ELSE IF Head(a) = Head(b) THEN StrLess(Tail(a), Tail(b))
    ELSE Code(Head(a)) < Code(Head(b))

\* sorted(list(unique_values))
RECURSIVE sorted(_)
sorted(S) ==
    IF S = {} THEN << >>
    ELSE LET m == CHOOSE x \in S : \A y \in S \ {x} : StrLess(x, y)
         IN <<m>> \o sorted(S \ {m})

Range(f) == {f[i] : i \in DOMAIN f}

(***************************************************************************)
(* _query_utils.py and the copies of its helpers in query.py               *)
(***************************************************************************)
RegulatorCandidatesSymbolFirst ==
    <<regulator_symbol, regulator_, tf_, regulator_locus_tag, gene_symbol>>
_REGULATOR_IDENTIFIER_CANDIDATES ==
    <<regulator_, tf_, regulator_symbol, regulator_locus_tag, gene_symbol>>
\* query.py keeps its own list, without `id`.
QuerySampleCandidates == <<sample_id, sra_accession>>
_SAMPLE_IDENTIFIER_CANDIDATES == <<sample_id, sra_accession, id_>>

\* First entry of the candidate list that is in fields; << >> when the
\* helper raises ValueError instead.
RECURSIVE FirstPresent(_, _)
FirstPresent(candidates, fields) ==
    IF candidates = << >> THEN << >>
    ELSE IF Head(candidates) \in Range(fields) THEN Head(candidates)
    ELSE FirstPresent(Tail(candidates), fields)

_resolve_regulator_identifier(fields) ==
    FirstPresent(_REGULATOR_IDENTIFIER_CANDIDATES, fields)
\* query.py's _resolve_sample_identifier (used by compute_intersection).
QueryResolveSampleIdentifier(fields) ==
    FirstPresent(QuerySampleCandidates, fields)
\* _query_utils.py's _resolve_sample_identifier (used by analysis.py).
_resolve_sample_identifier(fields) ==
    FirstPresent(_SAMPLE_IDENTIFIER_CANDIDATES, fields)
\* query.py's _resolve_join_sample_identifier.
_resolve_join_sample_identifier(fields, preferred) ==
    IF preferred # << >> /\ preferred \in Range(fields) THEN preferred
    ELSE QueryResolveSampleIdentifier(fields)

\* _candidate_regulator_tables(dataset_name)
RECURSIVE SupplementalCandidates(_)
SupplementalCandidates(supplementals) ==
    IF supplementals = << >> THEN << >>
    ELSE <<Head(supplementals) \o _meta, Head(supplementals)>>
            \o SupplementalCandidates(Tail(supplementals))
_candidate_regulator_tables(dataset_name) ==
    IF dataset_name \notin CatalogDbNames THEN <<dataset_name \o _meta>>
    ELSE <<dataset_name \o _meta>>
            \o SupplementalCandidates(SupplementalDbNames(dataset_name))

\* str(v).replace("'", "''")
NoEscape(v) == v
RECURSIVE Escape(_)
Escape(v) ==
    IF v = << >> THEN << >>
    ELSE IF Head(v) = "'" THEN <<"'", "'">> \o Escape(Tail(v))
    ELSE <<Head(v)>> \o Escape(Tail(v))

\* dict.get(key, {}) that would answer with the first entry of the mapping.
GetFirst(mapping, key) ==
    IF mapping = << >> THEN << >> ELSE mapping[1].items
\* dict.get(key, {}) on a per-dataset filter mapping; the mapping is kept
\* as its (key, items) entries, the items in insertion order.
Get(mapping, key) ==
    LET hits == SelectSeq(mapping, LAMBDA e : e.key = key)
    IN IF hits = << >> THEN << >> ELSE hits[1].items

\* The categorical loop of _build_where_sql over the (field, values) items
\* of body.filters[dataset_name]: a clause per field with a non-empty value.
RECURSIVE CategoricalClauses(_)
CategoricalClauses(items) ==
    IF items = << >> THEN [ok |-> TRUE, clauses |-> << >>]
    ELSE LET field == Head(items).field
             escaped == [i \in 1..Len(SelectSeq(Head(items).values,
                                        LAMBDA v : v # << >>)) |->
                            Escape(SelectSeq(Head(items).values,
                                        LAMBDA v : v # << >>)[i])]
             rest == CategoricalClauses(Tail(items))
         IN IF ~_validate_identifier(field)
              THEN [ok |-> FALSE, clauses |-> << >>]
            ELSE IF ~rest.ok THEN rest
            ELSE IF escaped = << >> THEN rest
            ELSE [ok |-> TRUE,
                  clauses |-> <<[field |-> field, cmp |-> "IN",
                                 lits |-> escaped, num |-> 0]>>
                              \o rest.clauses]

\* min_value is not None and max_value is not None and min > max
RangeInvalidOrEqual(f) == f.has_min /\ f.has_max /\ f.min_value >= f.max_value
RangeInvalid(f) == f.has_min /\ f.has_max /\ f.min_value > f.max_value

\* The numeric loop of _build_where_sql: the bounds are appended before the
\* range is checked; min_value > max_value raises ValueError.
RECURSIVE NumericClauses(_)
NumericClauses(items) ==
    IF items = << >> THEN [ok |-> TRUE, err |-> "none", clauses |-> << >>]
    ELSE LET f == Head(items)
             lower == IF f.has_min
                        THEN <<[field |-> f.field, cmp |-> ">=",
                                lits |-> << >>, num |-> f.min_value]>>
                        ELSE << >>
             upper == IF f.has_max
                        THEN <<[field |-> f.field, cmp |-> "<=",
                                lits |-> << >>, num |-> f.max_value]>>
                        ELSE << >>
             rest == NumericClauses(Tail(items))
         IN IF ~_validate_identifier(f.field)
              THEN [ok |-> FALSE, err |-> "InvalidIdentifier",
                    clauses |-> << >>]
            ELSE IF RangeInvalid(f)
              THEN [ok |-> FALSE, err |-> "InvalidRange", clauses |-> << >>]
            ELSE IF ~rest.ok THEN rest
            ELSE [ok |-> TRUE, err |-> "none",
                  clauses |-> lower \o upper \o rest.clauses]

\* f" WHERE {' AND '.join(where_clauses)}" if where_clauses else "": the
\* text as its tokens, a keyword or a clause each.
Keyword(word) == [field |-> << >>, cmp |-> word, lits |-> << >>, num |-> 0]
RECURSIVE JoinAnd(_)
JoinAnd(where_clauses) ==
    IF Len(where_clauses) <= 1 THEN where_clauses
    ELSE <<Head(where_clauses), Keyword("AND")>>
            \o JoinAnd(Tail(where_clauses))
WhereSql(where_clauses) ==
    IF where_clauses = << >> THEN << >>
    ELSE <<Keyword("WHERE")>> \o JoinAnd(where_clauses)

\* _build_where_sql(body, dataset_name): the clauses that are joined with
\* AND behind " WHERE "; no clause is the empty string.
_build_where_sql(b, dataset_name) ==
    LET cat == CategoricalClauses(Get(b.filters, dataset_name))
        num == NumericClauses(Get(b.numeric_filters, dataset_name))
    IN IF ~cat.ok THEN [ok |-> FALSE, err |-> "InvalidIdentifier",
                        clauses |-> << >>, sql |-> << >>]
       ELSE IF ~num.ok
         THEN [ok |-> FALSE, err |-> num.err, clauses |-> << >>,
               sql |-> << >>]
       ELSE [ok |-> TRUE, err |-> "none",
             clauses |-> cat.clauses \o num.clauses,
             sql |-> WhereSql(cat.clauses \o num.clauses)]

(***************************************************************************)
(* The live schema behind the handle (the engine of tfbpapi.VirtualDB)     *)
(***************************************************************************)
TF1 == <<"T","F","1">>
TF2 == <<"T","F","2">>
TF3 == <<"T","F","3">>
seven == <<"7">>
glucose == <<"g","l","u","c","o","s","e">>
galactose == <<"g","a","l","a","c","t","o","s","e">>
L1 == <<"L","1">>
L2 == <<"L","2">>
Y1 == <<"Y","1">>
Y2 == <<"Y","2">>

Row(fields, vals) ==
    [f \in Range(fields) |->
        vals[CHOOSE i \in 1..Len(fields) : fields[i] = f]]
Table(fields, valss) ==
    [fields |-> fields, rows |-> {Row(fields, v) : v \in valss}]

\* Contents a registered view can have in the model.
MetaFields == <<sample_id, regulator_symbol, carbon_source, effect_>>
HarbisonMeta ==
    Table(MetaFields,
          {<<IntV(1), StrV(TF1), StrV(glucose), IntV(1)>>,
           <<IntV(2), StrV(TF2), StrV(galactose), IntV(2)>>,
           <<IntV(3), NullV, StrV(glucose), IntV(0)>>,
           <<IntV(4), StrV(seven), StrV(galactose), IntV(1)>>,
           <<IntV(5), StrV(TF1), StrV(galactose), IntV(3)>>})
RossiMeta ==
    Table(MetaFields,
          {<<IntV(1), StrV(TF2), StrV(glucose), IntV(1)>>,
           <<IntV(2), StrV(TF3), StrV(galactose), IntV(2)>>,
           <<IntV(3), NullV, StrV(galactose), IntV(10)>>})
\* A metadata view without a regulator column.
MetaNoRegulator ==
    Table(<<sample_id, carbon_source, effect_>>,
          {<<IntV(1), StrV(glucose), IntV(1)>>,
           <<IntV(2), StrV(galactose), IntV(2)>>})
\* ... whose only identifier column is `id`.
MetaIdOnly ==
    Table(<<id_, target_locus_tag>>,
          {<<IntV(1), StrV(Y1)>>, <<IntV(2), StrV(Y2)>>})
\* Supplemental regulator metadata, with an integer-typed regulator column.
RegmetaRows ==
    {<<IntV(1), StrV(L1), IntV(7)>>, <<IntV(2), StrV(L2), IntV(8)>>,
     <<IntV(9), StrV(L1), IntV(9)>>, <<IntV(3), StrV(L2), IntV(7)>>}
RegmetaSampleId ==
    Table(<<sample_id, regulator_locus_tag, regulator_symbol>>, RegmetaRows)
RegmetaId ==
    Table(<<id_, regulator_locus_tag, regulator_symbol>>, RegmetaRows)
RegmetaNoSample ==
    Table(<<regulator_locus_tag, regulator_symbol>>,
          {<<StrV(L1), IntV(7)>>})
RegmetaMeta ==
    Table(<<sample_id, regulator_symbol>>, {<<IntV(1), StrV(TF3)>>})

\* A world from the views that are registered: name -> content.
World(views, configured, raises) ==
    [tables |-> DOMAIN views,
     fields |-> [t \in DOMAIN views |-> views[t].fields],
     rows |-> [t \in DOMAIN views |-> views[t].rows],
     configured |-> configured,
     absent_raises |-> raises]

View(name, content) == name :> content
NoViews == << >>
Merge(f, g) == [x \in (DOMAIN f) \cup (DOMAIN g) |->
                    IF x \in DOMAIN f THEN f[x] ELSE g[x]]

\* vdb.tables()
Tables == world.tables
\* vdb.get_fields(table). For a view that is not registered the engine either
\* raises or answers with no fields, depending on the engine build.
get_fields(table) ==
    IF table \in world.tables
      THEN [ok |-> TRUE, fields |-> world.fields[table]]
    ELSE IF world.absent_raises THEN [ok |-> FALSE, fields |-> << >>]
    ELSE [ok |-> TRUE, fields |-> << >>]

\* The engine reads a quoted literal: a doubled quote is one quote.
RECURSIVE Unescape(_)
Unescape(lit) ==
    IF lit = << >> THEN << >>
    ELSE IF Head(lit) = "'" /\ Len(lit) >= 2 /\ lit[2] = "'"
      THEN <<"'">> \o Unescape(Tail(Tail(lit)))
    ELSE <<Head(lit)>> \o Unescape(Tail(lit))

\* One clause of a WHERE on one row.
ClauseHolds(row, c) ==
    LET v == row[c.field] IN
    CASE c.cmp = "IN" ->
            v.t # "null" /\ \E i \in 1..Len(c.lits) :
                                Unescape(c.lits[i]) = Str(v)
      [] c.cmp = ">=" -> v.t = "int" /\ v.n >= c.num
      [] c.cmp = "<=" -> v.t = "int" /\ v.n <= c.num
      [] OTHER -> FALSE
Filtered(table, clauses) ==
    {row \in world.rows[table] :
        \A i \in 1..Len(clauses) : ClauseHolds(row, clauses[i])}
\* The engine rejects SQL that names a missing view or column.
Binds(table, columns, clauses) ==
    /\ table \in world.tables
    /\ columns \subseteq Range(world.fields[table])
    /\ \A i \in 1..Len(clauses) :
            clauses[i].field \in Range(world.fields[table])

\* SELECT DISTINCT <field> AS regulator FROM <table> <where>
SelectDistinct(field, table, clauses) ==
    IF ~Binds(table, {field}, clauses) THEN [ok |-> FALSE, values |-> {}]
    ELSE [ok |-> TRUE,
          values |-> {row[field] : row \in Filtered(table, clauses)}]

\* SELECT DISTINCT src.<field> FROM <table> AS src JOIN (SELECT DISTINCT
\* <base_sample> AS __sample_id FROM <base> <where>) AS f
\* ON CAST(src.<source_sample> AS VARCHAR) = CAST(f.__sample_id AS VARCHAR)
SelectDistinctJoin(field, table, source_sample, base_sample, base, clauses) ==
    IF ~Binds(table, {field, source_sample}, << >>)
          \/ ~Binds(base, {base_sample}, clauses)
      THEN [ok |-> FALSE, values |-> {}]
    ELSE LET samples == {Str(b[base_sample]) :
                            b \in {x \in Filtered(base, clauses) :
                                        x[base_sample].t # "null"}}
         IN [ok |-> TRUE,
             values |-> {row[field] :
                            row \in {x \in world.rows[table] :
                                        /\ x[source_sample].t # "null"
                                        /\ Str(x[source_sample]) \in samples}}]

\* SELECT COUNT(*) AS total FROM <table> <where>
SelectCount(table, clauses) ==
    IF ~Binds(table, {}, clauses) THEN [ok |-> FALSE, total |-> 0]
    ELSE [ok |-> TRUE, total |-> Cardinality(Filtered(table, clauses))]

\* SELECT DISTINCT <column> FROM <table> WHERE <column> IS NOT NULL
SelectDistinctNotNull(column, table) ==
    IF ~Binds(table, {column}, << >>) THEN [ok |-> FALSE, values |-> {}]
    ELSE [ok |-> TRUE,
          values |-> {row[column] : row \in world.rows[table]} \ {NullV}]

(***************************************************************************)
(* compute_intersection (query.py)                                         *)
(***************************************************************************)
NoErr == [kind |-> "none", table |-> << >>, tables |-> << >>]
Err(kind, table, tables) == [kind |-> kind, table |-> table, tables |-> tables]
\* An entry of the engine-call log: the position in body.datasets of the
\* dataset it was issued for, the engine method, the view, and for SQL the
\* shape of the statement.
Call(pos, kind, table, join, clauses, limit, offset) ==
    [pos |-> pos, kind |-> kind, table |-> table, join |-> join,
     clauses |-> clauses, limit |-> limit, offset |-> offset]

\* set(df["regulator"].dropna().astype(str).tolist())
ToRegulatorSetKeepNull(values) == {Str(v) : v \in values}
ToRegulatorSet(values) == {Str(v) : v \in values \ {NullV}}

Outcome(status, err, cs, values) ==
    [status |-> status, err |-> err, calls |-> cs, values |-> values]

\* The loop over _candidate_regulator_tables(ds_name): the first candidate
\* whose fields resolve a regulator identifier is queried and ends the walk.
RECURSIVE WalkCandidates(_, _, _, _, _, _)
WalkCandidates(candidates, pos, base_meta_table, base_fields, where_sql, checked_tables) ==
    IF candidates = << >>
      THEN Outcome("unresolved", Err("none", << >>, checked_tables), << >>, {})
    ELSE
    LET table == Head(candidates)
        got == get_fields(table)
        fields_call == Call(pos, "fields", table, FALSE, << >>, 0, 0)
        regulator_field == _resolve_regulator_identifier(got.fields)
        next == WalkCandidates(Tail(candidates), pos, base_meta_table,
                               base_fields, where_sql,
                               Append(checked_tables, table))
        base_sample_field == QueryResolveSampleIdentifier(base_fields)
        source_sample_field ==
            _resolve_join_sample_identifier(got.fields, base_sample_field)
        direct == SelectDistinct(regulator_field, table, where_sql)
        joined == SelectDistinctJoin(regulator_field, table,
                                     source_sample_field, base_sample_field,
                                     base_meta_table, where_sql)
    IN
    IF ~_validate_identifier(table)
      THEN Outcome("raise", Err("InvalidIdentifier", table, << >>), << >>, {})
    ELSE IF ~got.ok \/ regulator_field = << >>
      THEN [next EXCEPT !.calls = <<fields_call>> \o @]
    ELSE IF table = base_meta_table
      THEN IF direct.ok
             THEN Outcome("resolved", NoErr,
                    <<fields_call,
                      Call(pos, "query", table, FALSE, where_sql, 0, 0)>>,
                    direct.values)
           ELSE Outcome("raise", Err("EngineError", table, << >>),
                    <<fields_call,
                      Call(pos, "query", table, FALSE, where_sql, 0, 0)>>, {})
    ELSE IF base_sample_field = << >>
      THEN Outcome("raise",
                   Err("UnresolvedSampleField", base_meta_table, << >>),
                   <<fields_call>>, {})
    ELSE IF source_sample_field = << >>
      THEN Outcome("raise", Err("UnresolvedSampleField", table, << >>),
                   <<fields_call>>, {})
    ELSE IF joined.ok
      THEN Outcome("resolved", NoErr,
                   <<fields_call,
                     Call(pos, "query", table, TRUE, where_sql, 0, 0)>>,
                   joined.values)
    ELSE Outcome("raise", Err("EngineError", table, << >>),
                   <<fields_call,
                     Call(pos, "query", table, TRUE, where_sql, 0, 0)>>, {})

\* One pass of `for ds_name in dataset_names:` inside the lock. When no
\* candidate resolves, ValueError("No regulator metadata found for dataset
\* ... Checked tables: ...") is raised: the code's one error for an
\* unresolved regulator field.
IntersectionPass(b, ds_name, pos) ==
    LET base_meta_table == ds_name \o _meta
        base == get_fields(base_meta_table)
        base_call == Call(pos, "fields", base_meta_table, FALSE, << >>, 0, 0)
        where_sql == _build_where_sql(b, ds_name)
        walk == WalkCandidates(_candidate_regulator_tables(ds_name), pos,
                               base_meta_table, base.fields,
                               where_sql.clauses, << >>)
    IN
    IF ~_validate_identifier(base_meta_table)
      THEN Outcome("raise", Err("InvalidIdentifier", base_meta_table, << >>),
                   << >>, {})
    ELSE IF ~base.ok
      THEN Outcome("raise", Err("EngineError", base_meta_table, << >>),
                   <<base_call>>, {})
    ELSE IF ~where_sql.ok
      THEN Outcome("raise", Err(where_sql.err, ds_name, << >>),
                   <<base_call>>, {})
    ELSE IF walk.status = "unresolved"
      THEN Outcome("raise",
                   Err("UnresolvedRegulatorField", ds_name, walk.err.tables),
                   <<base_call>> \o walk.calls, {})
    ELSE [walk EXCEPT !.calls = <<base_call>> \o @]

\* regulator_sets.get(ds, set())
GetSet(sets, ds) == IF ds \in DOMAIN sets THEN sets[ds] ELSE {}

\* The two loops over enumerate(dataset_names): `if j < i: continue`.
SkipCellOnDiagonal(i, j) == j <= i
SkipCell(i, j) == j < i
CellCount(sets, ds_a, ds_b, i, j) ==
    IF i = j THEN Cardinality(GetSet(sets, ds_a))
    ELSE Cardinality(GetSet(sets, ds_a) \cap GetSet(sets, ds_b))
RECURSIVE IntersectionCells(_, _, _, _)
IntersectionCells(dataset_names, sets, i, j) ==
    IF i > Len(dataset_names) THEN << >>
    ELSE IF j > Len(dataset_names)
      THEN IntersectionCells(dataset_names, sets, i + 1, 1)
    ELSE (IF SkipCell(i, j) THEN << >>
          ELSE <<[row |-> dataset_names[i], col |-> dataset_names[j],
                  count |-> CellCount(sets, dataset_names[i],
                                      dataset_names[j], i, j)]>>)
         \o IntersectionCells(dataset_names, sets, i, j + 1)

NoResponse == [status |-> "none", err |-> NoErr, cells |-> << >>,
               entries |-> << >>, values |-> << >>, summary |-> << >>]
ErrorResponse(err) == [NoResponse EXCEPT !.status = "error", !.err = err]

\* dataset_names = [_validate_identifier(d) for d in body.datasets]
InvalidNames(names) ==
    {i \in 1..Len(names) : ~_validate_identifier(names[i])}
FirstInvalid(names) ==
    names[CHOOSE i \in InvalidNames(names) :
            \A k \in InvalidNames(names) : i <= k]

IxStart ==
    /\ pc = "start"
    /\ body.op = "compute_intersection"
    /\ IF InvalidNames(body.datasets) # {}
         THEN /\ pc' = "failed"
              /\ response' = ErrorResponse(
                    Err("InvalidIdentifier", FirstInvalid(body.datasets),
                        << >>))
              /\ idx' = 0
         ELSE /\ pc' = "loop"
              /\ idx' = 1
              /\ UNCHANGED response
    /\ UNCHANGED <<world, body, calls, regulator_sets, results, unique_values>>

IxDataset ==
    /\ pc = "loop"
    /\ body.op = "compute_intersection"
    /\ idx <= Len(body.datasets)
    /\ LET ds_name == body.datasets[idx]
           out == IntersectionPass(body, ds_name, idx)
       IN /\ calls' = calls \o out.calls
          /\ IF out.status = "resolved"
               THEN /\ regulator_sets' =
                            [d \in DOMAIN regulator_sets \cup {ds_name} |->
                                IF d = ds_name THEN ToRegulatorSet(out.values)
                                ELSE regulator_sets[d]]
                    /\ idx' = idx + 1
                    /\ UNCHANGED <<pc, response>>
               ELSE /\ pc' = "failed"
                    /\ response' = ErrorResponse(out.err)
                    /\ UNCHANGED <<idx, regulator_sets>>
    /\ UNCHANGED <<world, body, results, unique_values>>

IxCells ==
    /\ pc = "loop"
    /\ body.op = "compute_intersection"
    /\ idx > Len(body.datasets)
    /\ pc' = "done"
    /\ response' = [NoResponse EXCEPT !.status = "ok",
            !.cells = IntersectionCells(body.datasets, regulator_sets, 1, 1)]
    /\ UNCHANGED <<world, body, idx, calls, regulator_sets, results,
                   unique_values>>

(***************************************************************************)
(* binding_analysis / perturbation_analysis (analysis.py)                  *)
(***************************************************************************)
Min(a, b) == IF a < b THEN a ELSE b
Max(a, b) == IF a > b THEN a ELSE b

\* The order in which the engine scans a set of rows: some fixed order.
RECURSIVE Scan(_)
Scan(rows) ==
    IF rows = {} THEN << >>
    ELSE LET first == CHOOSE r \in rows : TRUE
         IN <<first>> \o Scan(rows \ {first})
\* offset = (page - 1) * page_size
PageOffsetNext(page, page_size) == page * page_size
PageOffset(page, page_size) == (page - 1) * page_size
\* has_next = (offset + page_size) < total
HasNext(offset, page_size, total) == (offset + page_size) < total
\* SELECT * FROM <table> <where> LIMIT <limit> OFFSET <offset>: the rows
\* that come back, and how many.
SelectPage(table, clauses, limit, offset) ==
    IF ~Binds(table, {}, clauses)
      THEN [ok |-> FALSE, nrows |-> 0, rows |-> << >>]
    ELSE LET result == SelectSeq(Scan(world.rows[table]),
                        LAMBDA row : \A i \in 1..Len(clauses) :
                                        ClauseHolds(row, clauses[i]))
         IN [ok |-> TRUE,
             nrows |-> Max(0, Min(limit,
                        Cardinality(Filtered(table, clauses)) - offset)),
             rows |-> SubSeq(result, offset + 1,
                             Min(offset + limit, Len(result)))]

ListOutcome(status, err, cs, entries) ==
    [status |-> status, err |-> err, calls |-> cs, entries |-> entries]

\* A missing dataset: `raise HTTPException(400, "Dataset ... not found")`.
MissingDatasetSkipped(ds_name, pos) ==
    ListOutcome("ok", NoErr,
                <<Call(pos, "tables", << >>, FALSE, << >>, 0, 0)>>, << >>)
MissingDataset(ds_name, pos) ==
    ListOutcome("raise", Err("DatasetNotFound", ds_name, << >>),
                <<Call(pos, "tables", << >>, FALSE, << >>, 0, 0)>>, << >>)

\* One pass of `for ds_name in dataset_names:` inside the lock.
ListingPass(b, ds_name, pos) ==
    LET tables_call == Call(pos, "tables", << >>, FALSE, << >>, 0, 0)
        where_sql == _build_where_sql(b, ds_name)
        count == SelectCount(ds_name, where_sql.clauses)
        count_call == Call(pos, "query", ds_name, FALSE, where_sql.clauses,
                           0, 0)
        offset == PageOffset(b.page, b.page_size)
        data == SelectPage(ds_name, where_sql.clauses, b.page_size, offset)
        data_call == Call(pos, "query", ds_name, FALSE, where_sql.clauses,
                          b.page_size, offset)
        fields_call == Call(pos, "fields", ds_name, FALSE, << >>, 0, 0)
    IN
    IF ds_name \notin Tables THEN MissingDataset(ds_name, pos)
    ELSE IF ~where_sql.ok
      THEN ListOutcome("raise", Err(where_sql.err, ds_name, << >>),
                       <<tables_call>>, << >>)
    ELSE IF ~count.ok
      THEN ListOutcome("raise", Err("EngineError", ds_name, << >>),
                       <<tables_call, count_call>>, << >>)
    ELSE IF count.total = 0
      THEN ListOutcome("ok", NoErr, <<tables_call, count_call>>,
                <<[db_name |-> ds_name, nrows |-> 0, data |-> << >>,
                   total |-> 0,
                   page |-> b.page, page_size |-> b.page_size,
                   has_next |-> FALSE, columns |-> << >>]>>)
    ELSE ListOutcome("ok", NoErr,
                <<tables_call, count_call, fields_call, data_call>>,
                <<[db_name |-> ds_name, nrows |-> data.nrows,
                   data |-> data.rows,
                   total |-> count.total,
                   page |-> b.page, page_size |-> b.page_size,
                   has_next |-> HasNext(offset, b.page_size, count.total),
                   columns |-> get_fields(ds_name).fields]>>)

IsListing == body.op \in {"binding_analysis", "perturbation_analysis"}

\* Validation of the names; an empty list returns [] without the lock.
ListStart ==
    /\ pc = "start"
    /\ IsListing
    /\ IF InvalidNames(body.datasets) # {}
         THEN /\ pc' = "failed"
              /\ response' = ErrorResponse(
                    Err("InvalidIdentifier", FirstInvalid(body.datasets),
                        << >>))
              /\ idx' = 0
         ELSE IF body.datasets = << >>
           THEN /\ pc' = "done"
                /\ response' = [NoResponse EXCEPT !.status = "ok"]
                /\ idx' = 0
         ELSE /\ pc' = "loop"
              /\ idx' = 1
              /\ UNCHANGED response
    /\ UNCHANGED <<world, body, calls, regulator_sets, results, unique_values>>

ListDataset ==
    /\ pc = "loop"
    /\ IsListing
    /\ idx <= Len(body.datasets)
    /\ LET out == ListingPass(body, body.datasets[idx], idx)
       IN /\ calls' = calls \o out.calls
          /\ IF out.status = "ok"
               THEN /\ results' = results \o out.entries
                    /\ idx' = idx + 1
                    /\ UNCHANGED <<pc, response>>
               ELSE /\ pc' = "failed"
                    /\ response' = ErrorResponse(out.err)
                    /\ UNCHANGED <<idx, results>>
    /\ UNCHANGED <<world, body, regulator_sets, unique_values>>

ListReturn ==
    /\ pc = "loop"
    /\ IsListing
    /\ idx > Len(body.datasets)
    /\ pc' = "done"
    /\ response' = [NoResponse EXCEPT !.status = "ok", !.entries = results]
    /\ UNCHANGED <<world, body, idx, calls, regulator_sets, results,
                   unique_values>>

(***************************************************************************)
(* filter_options of analysis.py: values of one column across datasets     *)
(***************************************************************************)
FvOutcome(status, err, cs, found) ==
    [status |-> status, err |-> err, calls |-> cs, found |-> found]

\* A dataset that is not registered: `continue`.
AbsentDatasetRaises(ds_name, pos) ==
    FvOutcome("raise", Err("DatasetNotFound", ds_name, << >>),
              <<Call(pos, "tables", << >>, FALSE, << >>, 0, 0)>>, {})
AbsentDataset(ds_name, pos) ==
    FvOutcome("ok", NoErr,
              <<Call(pos, "tables", << >>, FALSE, << >>, 0, 0)>>, {})

\* One pass of `for ds_name in dataset_names:` inside the lock.
FilterValuesPass(column, ds_name, pos) ==
    LET tables_call == Call(pos, "tables", << >>, FALSE, << >>, 0, 0)
        fields_call == Call(pos, "fields", ds_name, FALSE, << >>, 0, 0)
        query_call == Call(pos, "query", ds_name, FALSE, << >>, 0, 0)
        result == SelectDistinctNotNull(column, ds_name)
    IN
    IF ds_name \notin Tables THEN AbsentDataset(ds_name, pos)
    ELSE IF column \notin Range(get_fields(ds_name).fields)
      THEN FvOutcome("ok", NoErr, <<tables_call, fields_call>>, {})
    ELSE IF ~result.ok
      THEN FvOutcome("raise", Err("EngineError", ds_name, << >>),
                     <<tables_call, fields_call, query_call>>, {})
    ELSE FvOutcome("ok", NoErr, <<tables_call, fields_call, query_call>>,
                   {Str(v) : v \in result.values})

FvStart ==
    /\ pc = "start"
    /\ body.op = "analysis_filter_options"
    /\ IF InvalidNames(body.datasets) # {}
         THEN /\ pc' = "failed"
              /\ response' = ErrorResponse(
                    Err("InvalidIdentifier", FirstInvalid(body.datasets),
                        << >>))
              /\ idx' = 0
         ELSE IF ~_validate_identifier(body.column)
           THEN /\ pc' = "failed"
                /\ response' = ErrorResponse(
                        Err("InvalidIdentifier", body.column, << >>))
                /\ idx' = 0
         ELSE IF body.datasets = << >>
           THEN /\ pc' = "done"
                /\ response' = [NoResponse EXCEPT !.status = "ok"]
                /\ idx' = 0
         ELSE /\ pc' = "loop"
              /\ idx' = 1
              /\ UNCHANGED response
    /\ UNCHANGED <<world, body, calls, regulator_sets, results, unique_values>>

FvDataset ==
    /\ pc = "loop"
    /\ body.op = "analysis_filter_options"
    /\ idx <= Len(body.datasets)
    /\ LET out == FilterValuesPass(body.column, body.datasets[idx], idx)
       IN /\ calls' = calls \o out.calls
          /\ IF out.status = "ok"
               THEN /\ unique_values' = unique_values \cup out.found
                    /\ idx' = idx + 1
                    /\ UNCHANGED <<pc, response>>
               ELSE /\ pc' = "failed"
                    /\ response' = ErrorResponse(out.err)
                    /\ UNCHANGED <<idx, unique_values>>
    /\ UNCHANGED <<world, body, regulator_sets, results>>

FvReturn ==
    /\ pc = "loop"
    /\ body.op = "analysis_filter_options"
    /\ idx > Len(body.datasets)
    /\ pc' = "done"
    /\ response' = [NoResponse EXCEPT !.status = "ok",
                                      !.values = sorted(unique_values)]
    /\ UNCHANGED <<world, body, idx, calls, regulator_sets, results,
                   unique_values>>

(***************************************************************************)
(* Filter-option derivation: filter_options of query.py and the            *)
(* metadata_fields part of source_summary (analysis.py)                    *)
(***************************************************************************)
\* A float NaN, as MIN / MAX can return it.
NaNV == [t |-> "nan", s |-> << >>, n |-> 0]

strain_ == <<"s","t","r","a","i","n">>
note_ == <<"n","o","t","e">>
pvalue_ == <<"p","v","a","l","u","e">>
score_ == <<"s","c","o","r","e">>
growth_ == <<"g","r","o","w","t","h">>

\* `distinct_count <= 100` of source_summary.
CategoricalLimit == 100

\* A metadata view with a text column of more distinct values than the
\* limit, a text column and a numeric column that are NULL in every row, a
\* numeric column of NaN only and one of NaN and numbers.
WideRowCount == CategoricalLimit + 1
WideMeta ==
    Table(<<sample_id, regulator_symbol, strain_, note_, pvalue_, score_,
            growth_>>,
          {<<IntV(i), StrV(IF i % 2 = 0 THEN TF1 ELSE TF2),
             StrV(<<"s">> \o Decimal(i)), NullV, NullV, NaNV,
             IF i % 2 = 0 THEN IntV(i) ELSE NaNV>> : i \in 1..WideRowCount})

\* Columns that are text though every row is NULL.
NullTextColumns == {note_}
\* The column_type that vdb.describe reports for a column of a view.
ColumnType(table, field) ==
    LET values == {row[field] : row \in world.rows[table]}
    IN IF \E v \in values : v.t = "str" THEN "VARCHAR"
       ELSE IF \E v \in values : v.t = "nan" THEN "DOUBLE"
       ELSE IF \E v \in values : v.t = "int" THEN "INTEGER"
       ELSE IF field \in NullTextColumns THEN "VARCHAR"
       ELSE "DOUBLE"

_NUMERIC_TYPE_TOKENS ==
    {"TINYINT", "SMALLINT", "INTEGER", "BIGINT", "HUGEINT", "UTINYINT",
     "USMALLINT", "UINTEGER", "UBIGINT", "UHUGEINT", "REAL", "FLOAT",
     "DOUBLE", "DECIMAL", "NUMERIC"}
\* The model's column types are the tokens themselves; "" is a column that
\* the type map does not hold.
_is_numeric_column_type(column_type) ==
    column_type # "" /\ column_type \in _NUMERIC_TYPE_TOKENS

\* _column_type_map(vdb, table): vdb.describe(table) as name -> type. For a
\* view that is not registered the engine raises or describes nothing.
_column_type_map(table) ==
    IF table \in world.tables
      THEN [ok |-> TRUE,
            types |-> [f \in Range(world.fields[table]) |->
                            ColumnType(table, f)]]
    ELSE IF world.absent_raises THEN [ok |-> FALSE, types |-> << >>]
    ELSE [ok |-> TRUE, types |-> << >>]
\* type_map.get(field)
TypeOf(type_map, field) ==
    IF field \in DOMAIN type_map THEN type_map[field] ELSE ""

\* _normalize_numeric_stat: None for NULL and for NaN.
NoStat == [has |-> FALSE, value |-> 0]
_normalize_numeric_stat(value) ==
    IF value.t = "int" THEN [has |-> TRUE, value |-> value.n] ELSE NoStat

\* SELECT MIN(<field>) AS min_value, MAX(<field>) AS max_value FROM <table>
\* WHERE <field> IS NOT NULL. NaN orders above every number.
SelectMinMax(field, table) ==
    LET values == {row[field] : row \in world.rows[table]} \ {NullV}
        numbers == {v.n : v \in {x \in values : x.t = "int"}}
        least == CHOOSE n \in numbers : \A k \in numbers : n <= k
        most == CHOOSE n \in numbers : \A k \in numbers : k <= n
    IN IF values = {} THEN [min_value |-> NullV, max_value |-> NullV]
       ELSE [min_value |-> IF numbers = {} THEN NaNV ELSE IntV(least),
             max_value |-> IF NaNV \in values THEN NaNV ELSE IntV(most)]

\* SELECT COUNT(DISTINCT <field>) AS cnt FROM <table> WHERE <field> IS NOT NULL
SelectCountDistinct(field, table) ==
    Cardinality({row[field] : row \in world.rows[table]} \ {NullV})

\* SELECT DISTINCT <field> FROM <table> WHERE <field> IS NOT NULL ORDER BY
\* <field>, then [str(v) for v in ...]: text columns order as their strings.
DistinctStrings(field, table) ==
    sorted({Str(v) : v \in {row[field] : row \in world.rows[table]} \ {NullV}})

NumericOption(field, min_value, max_value) ==
    [field |-> field, kind |-> "numeric", values |-> << >>,
     min_value |-> min_value, max_value |-> max_value]
CategoricalOption(field, values) ==
    [field |-> field, kind |-> "categorical", values |-> values,
     min_value |-> NoStat, max_value |-> NoStat]

\* The numeric branch, the same in both handlers: no option when both
\* statistics are None.
NumericOptions(field, table) ==
    LET range == SelectMinMax(field, table)
        min_value == _normalize_numeric_stat(range.min_value)
        max_value == _normalize_numeric_stat(range.max_value)
    IN IF ~min_value.has /\ ~max_value.has THEN << >>
       ELSE <<NumericOption(field, min_value, max_value)>>

\* filter_options of query.py, one pass of `for field in fields:`: the
\* options it appends and the statements it issues.
FilterOptionsField(field, table, type_map, pos) ==
    LET query_call == Call(pos, "query", table, FALSE, << >>, 0, 0)
        values == DistinctStrings(field, table)
    IN IF field = sample_id THEN [options |-> << >>, calls |-> << >>]
       ELSE IF _is_numeric_column_type(TypeOf(type_map, field))
         THEN [options |-> NumericOptions(field, table),
               calls |-> <<query_call>>]
       ELSE [options |-> IF values = << >> THEN << >>
                         ELSE <<CategoricalOption(field, values)>>,
             calls |-> <<query_call>>]

\* source_summary, one pass of `for field in meta_fields:`.
SourceSummaryField(field, table, type_map, pos) ==
    LET query_call == Call(pos, "query", table, FALSE, << >>, 0, 0)
        distinct_count == SelectCountDistinct(field, table)
    IN IF field \in {sample_id, sra_accession}
         THEN [options |-> << >>, calls |-> << >>]
       ELSE IF _is_numeric_column_type(TypeOf(type_map, field))
         THEN [options |-> NumericOptions(field, table),
               calls |-> <<query_call>>]
       ELSE IF distinct_count > 0 /\ distinct_count <= CategoricalLimit
         THEN [options |-> <<CategoricalOption(field,
                                    DistinctStrings(field, table))>>,
               calls |-> <<query_call, query_call>>]
       ELSE [options |-> << >>, calls |-> <<query_call>>]

\* filter_options of query.py up to its loop: the table name is validated,
\* then inside the lock the fields and the type map are read.
FoStart ==
    /\ pc = "start"
    /\ body.op = "filter_options"
    /\ LET table == body.table
           got == get_fields(table)
           type_map == _column_type_map(table)
           fields_call == Call(1, "fields", table, FALSE, << >>, 0, 0)
           describe_call == Call(1, "describe", table, FALSE, << >>, 0, 0)
       IN IF ~_validate_identifier(table)
            THEN /\ pc' = "failed"
                 /\ response' = ErrorResponse(
                                    Err("InvalidIdentifier", table, << >>))
                 /\ UNCHANGED <<idx, calls>>
          ELSE IF ~got.ok
            THEN /\ pc' = "failed"
                 /\ response' = ErrorResponse(Err("EngineError", table, << >>))
                 /\ calls' = <<fields_call>>
                 /\ UNCHANGED idx
          ELSE IF ~type_map.ok
            THEN /\ pc' = "failed"
                 /\ response' = ErrorResponse(Err("EngineError", table, << >>))
                 /\ calls' = <<fields_call, describe_call>>
                 /\ UNCHANGED idx
          ELSE /\ pc' = "loop"
               /\ idx' = 1
               /\ calls' = <<fields_call, describe_call>>
               /\ UNCHANGED response
    /\ UNCHANGED <<world, body, regulator_sets, results, unique_values>>

FoField ==
    /\ pc = "loop"
    /\ body.op = "filter_options"
    /\ idx <= Len(get_fields(body.table).fields)
    /\ LET out == FilterOptionsField(get_fields(body.table).fields[idx],
                                     body.table,
                                     _column_type_map(body.table).types, 1)
       IN /\ results' = results \o out.options
          /\ calls' = calls \o out.calls
    /\ idx' = idx + 1
    /\ UNCHANGED <<world, body, pc, regulator_sets, unique_values, response>>

FoReturn ==
    /\ pc = "loop"
    /\ body.op = "filter_options"
    /\ idx > Len(get_fields(body.table).fields)
    /\ pc' = "done"
    /\ response' = [NoResponse EXCEPT !.status = "ok", !.entries = results]
    /\ UNCHANGED <<world, body, idx, calls, regulator_sets, results,
                   unique_values>>

\* COUNT(DISTINCT <field>) of the first candidate that is a field, else 0.
target_candidates ==
    <<target_locus_tag, <<"t","a","r","g","e","t">>,
      <<"g","e","n","e","_","l","o","c","u","s","_","t","a","g">>>>
CountDistinctOf(field, table) ==
    IF field = << >> THEN 0 ELSE SelectCountDistinct(field, table)

\* source_summary up to its metadata loop: the name is validated, inside the
\* lock both views must be registered, then the counts are taken.
SsStart ==
    /\ pc = "start"
    /\ body.op = "source_summary"
    /\ LET db_name == body.table
           meta_table == db_name \o _meta
           tables_call == Call(1, "tables", << >>, FALSE, << >>, 0, 0)
           fields == get_fields(db_name).fields
           meta_fields == get_fields(meta_table).fields
       IN IF ~_validate_identifier(db_name)
            THEN /\ pc' = "failed"
                 /\ response' = ErrorResponse(
                                    Err("InvalidIdentifier", db_name, << >>))
                 /\ UNCHANGED <<idx, calls>>
          ELSE IF db_name \notin Tables
            THEN /\ pc' = "failed"
                 /\ response' = ErrorResponse(
                                    Err("DatasetNotFound", db_name, << >>))
                 /\ calls' = <<tables_call>>
                 /\ UNCHANGED idx
          ELSE IF meta_table \notin Tables
            THEN /\ pc' = "failed"
                 /\ response' = ErrorResponse(
                                    Err("DatasetNotFound", meta_table, << >>))
                 /\ calls' = <<tables_call>>
                 /\ UNCHANGED idx
          ELSE /\ pc' = "loop"
               /\ idx' = 1
               /\ calls' = <<tables_call,
                             Call(1, "query", db_name, FALSE, << >>, 0, 0),
                             Call(1, "fields", db_name, FALSE, << >>, 0, 0),
                             Call(1, "fields", meta_table, FALSE, << >>, 0, 0),
                             Call(1, "describe", meta_table, FALSE, << >>,
                                  0, 0)>>
               /\ response' = [NoResponse EXCEPT !.summary =
                    [total_rows |-> Cardinality(world.rows[db_name]),
                     column_count |-> Len(fields),
                     regulator_count |-> CountDistinctOf(
                        _resolve_regulator_identifier(meta_fields),
                        meta_table),
                     target_count |-> CountDistinctOf(
                        FirstPresent(target_candidates, fields), db_name),
                     sample_count |-> CountDistinctOf(
                        _resolve_sample_identifier(meta_fields),
                        meta_table)]]
    /\ UNCHANGED <<world, body, regulator_sets, results, unique_values>>

SsField ==
    /\ pc = "loop"
    /\ body.op = "source_summary"
    /\ LET meta_table == body.table \o _meta
           meta_fields == get_fields(meta_table).fields
       IN /\ idx <= Len(meta_fields)
          /\ LET out == SourceSummaryField(meta_fields[idx], meta_table,
                                _column_type_map(meta_table).types, 1)
             IN /\ results' = results \o out.options
                /\ calls' = calls \o out.calls
    /\ idx' = idx + 1
    /\ UNCHANGED <<world, body, pc, regulator_sets, unique_values, response>>

SsReturn ==
    /\ pc = "loop"
    /\ body.op = "source_summary"
    /\ idx > Len(get_fields(body.table \o _meta).fields)
    /\ pc' = "done"
    /\ response' = [response EXCEPT !.status = "ok", !.entries = results]
    /\ UNCHANGED <<world, body, idx, calls, regulator_sets, results,
                   unique_values>>

(***************************************************************************)
(* execute_query of query.py                                               *)
(***************************************************************************)
\* body.sql is `SELECT * FROM <table>`; the count and the page are taken
\* around it inside the lock. SQL the engine rejects raises.
ExecuteQuery ==
    /\ pc = "start"
    /\ body.op = "execute_query"
    /\ LET offset == PageOffset(body.page, body.page_size)
           count == SelectCount(body.table, << >>)
           data == SelectPage(body.table, << >>, body.page_size, offset)
           count_call == Call(1, "query", body.table, FALSE, << >>, 0, 0)
           data_call == Call(1, "query", body.table, FALSE, << >>,
                             body.page_size, offset)
       IN IF ~count.ok
            THEN /\ pc' = "failed"
                 /\ response' = ErrorResponse(
                                    Err("EngineError", body.table, << >>))
                 /\ calls' = <<count_call>>
          ELSE /\ pc' = "done"
               /\ calls' = <<count_call, data_call>>
               /\ response' = [NoResponse EXCEPT
                    !.status = "ok",
                    !.entries =
                        <<[db_name |-> body.table, nrows |-> data.nrows,
                           data |-> data.rows, total |-> count.total,
                           page |-> body.page, page_size |-> body.page_size,
                           has_next |-> HasNext(offset, body.page_size,
                                                count.total),
                           columns |-> << >>]>>]
    /\ UNCHANGED <<world, body, idx, regulator_sets, results, unique_values>>

(***************************************************************************)
(* correlation_matrix of analysis.py                                       *)
(***************************************************************************)
\* A data view for correlation: two samples and two regulators with two
\* values each, groups with one value, a NULL key, a NULL value and a NaN.
CorrelationFields == <<sample_id, regulator_symbol, effect_>>
CorrelationData ==
    Table(CorrelationFields,
          {<<IntV(1), StrV(TF1), IntV(1)>>, <<IntV(1), StrV(TF2), IntV(2)>>,
           <<IntV(2), StrV(TF1), IntV(3)>>, <<IntV(2), StrV(TF2), IntV(5)>>,
           <<IntV(3), StrV(TF3), IntV(4)>>, <<IntV(3), StrV(TF1), NullV>>,
           <<IntV(4), NullV, IntV(9)>>, <<IntV(5), StrV(seven), NaNV>>})
\* ... in which no row has a value.
CorrelationNoValues ==
    Table(CorrelationFields,
          {<<IntV(1), StrV(TF1), NullV>>, <<IntV(2), StrV(TF2), NullV>>})
\* ... in which a key holds a single quote.
CorrelationQuoted ==
    Table(CorrelationFields,
          {<<IntV(1), StrV(<<"o", "'", "b">>), IntV(1)>>,
           <<IntV(2), StrV(<<"o", "'", "b">>), IntV(2)>>,
           <<IntV(1), StrV(TF1), IntV(3)>>, <<IntV(2), StrV(TF1), IntV(5)>>})
Project(content, fields) ==
    [fields |-> fields,
     rows |-> {[f \in Range(fields) |-> r[f]] : r \in content.rows}]

\* The rows of {db_name} with a non-null key and a non-null value (a NaN is
\* not NULL to the engine).
Observed(db_name, group_column, value_column) ==
    {r \in world.rows[db_name] :
        r[group_column].t # "null" /\ r[value_column].t # "null"}
GroupCount(db_name, group_column, value_column, label) ==
    Cardinality({r \in Observed(db_name, group_column, value_column) :
                    Str(r[group_column]) = label})
\* ... GROUP BY g LIMIT max_items, without the ORDER BY.
TopItemsUnordered(db_name, group_column, value_column, max_items) ==
    LET keys == {Str(r[group_column]) :
                    r \in Observed(db_name, group_column, value_column)}
        n == Min(max_items, Cardinality(keys))
    IN {labels \in [1..n -> keys] :
            \A i, j \in 1..n : i < j => labels[i] # labels[j]}
\* SELECT g, COUNT(*) AS cnt ... GROUP BY g ORDER BY cnt DESC LIMIT max_items
\* and labels = [str(item) ...]: every order the engine may return, ties
\* being broken either way.
TopItems(db_name, group_column, value_column, max_items) ==
    LET keys == {Str(r[group_column]) :
                    r \in Observed(db_name, group_column, value_column)}
        cnt(l) == GroupCount(db_name, group_column, value_column, l)
        n == Min(max_items, Cardinality(keys))
    IN {labels \in [1..n -> keys] :
            /\ \A i, j \in 1..n : i < j =>
                    /\ labels[i] # labels[j]
                    /\ cnt(labels[i]) >= cnt(labels[j])
            /\ \A l \in keys \ Range(labels) :
                    \A i \in 1..n : cnt(labels[i]) >= cnt(l)}
\* len(vectors_df): rows of either label with a non-null value.
VectorRows(db_name, group_column, value_column, label_a, label_b) ==
    Cardinality({r \in Observed(db_name, group_column, value_column) :
                    Str(r[group_column]) \in {label_a, label_b}})
ValuesOf(db_name, group_column, value_column, label) ==
    {r[value_column] :
        r \in {x \in Observed(db_name, group_column, value_column) :
                    Str(x[group_column]) = label}}
\* SELECT CORR(val_a, val_b) over the cross product of the two value
\* vectors. A NaN among the values gives NaN; a vector without variance
\* leaves the aggregate undefined, NULL or NaN by the engine build; else the
\* covariance of a cross product is zero.
Corr(db_name, group_column, value_column, label_a, label_b) ==
    LET a == ValuesOf(db_name, group_column, value_column, label_a)
        b == ValuesOf(db_name, group_column, value_column, label_b)
    IN IF NaNV \in a \cup b THEN {NaNV}
       ELSE IF Cardinality(a) < 2 \/ Cardinality(b) < 2 THEN {NullV, NaNV}
       ELSE {IntV(0)}
\* correlation = 0.0 if corr_df["correlation"].isna().iloc[0]
\*               else float(corr_df["correlation"].iloc[0])
CorrelationRaw(outcome) == outcome
Correlation(outcome) ==
    IF outcome.t \in {"null", "nan"} THEN IntV(0) ELSE outcome

CorrelationCell(row, col, value) == [row |-> row, col |-> col, value |-> value]
\* What the handler saw for one pair: len(vectors_df), whether the aggregate
\* was queried and what came back, and the cell it appended.
Pair(observations, queried, aggregate, cell) ==
    [observations |-> observations, queried |-> queried,
     aggregate |-> aggregate, cell |-> cell]

Grouping(ok, kind, table, column, cs) ==
    [ok |-> ok, err |-> Err(kind, table, << >>), column |-> column,
     calls |-> cs]
\* group_column = "sample_id", without a look at the fields.
GroupColumnUnchecked(group_by, db_name, fields) ==
    LET meta_table == db_name \o _meta
        got == get_fields(meta_table)
        fields_call == <<Call(1, "fields", meta_table, FALSE, << >>, 0, 0)>>
        resolved == _resolve_regulator_identifier(got.fields)
    IN IF group_by = "regulator"
         THEN IF got.ok /\ resolved # << >>
                THEN Grouping(TRUE, "none", << >>, resolved, fields_call)
                ELSE Grouping(FALSE, "UnresolvedRegulatorField", meta_table,
                              << >>, fields_call)
       ELSE IF group_by = "sample"
         THEN Grouping(TRUE, "none", << >>, sample_id, << >>)
       ELSE Grouping(FALSE, "InvalidGroupBy", db_name, << >>, << >>)
\* "Determine grouping column"
GroupColumn(group_by, db_name, fields) ==
    IF group_by = "sample" /\ sample_id \notin Range(fields)
      THEN Grouping(FALSE, "ColumnNotFound", db_name, << >>, << >>)
    ELSE GroupColumnUnchecked(group_by, db_name, fields)

IsCorrelation == body.op = "correlation_matrix"
\* Upper triangle of n labels, row by row: the k-th pair.
PairCount(n) == (n * (n + 1)) \div 2
PairAt(n, k) ==
    CHOOSE p \in (1..n) \X (1..n) :
        /\ p[1] <= p[2]
        /\ k = (p[1] - 1) * n - PairCount(p[1] - 2) + (p[2] - p[1] + 1)

CorrFail(err, cs) ==
    /\ pc' = "failed"
    /\ response' = ErrorResponse(err)
    /\ calls' = cs
    /\ UNCHANGED idx
\* Validation, the checks inside the lock and the frequency query.
CorrStart ==
    /\ pc = "start"
    /\ IsCorrelation
    /\ LET db_name == body.db_name
           value_column == body.value_column
           tables_call == <<Call(1, "tables", << >>, FALSE, << >>, 0, 0)>>
           fields_call == <<Call(1, "fields", db_name, FALSE, << >>, 0, 0)>>
           fields == get_fields(db_name).fields
           grouping == GroupColumn(body.group_by, db_name, fields)
           checked == tables_call \o fields_call \o grouping.calls
           top_items == <<Call(1, "query", db_name, FALSE, << >>,
                               body.max_items, 0)>>
       IN IF ~_validate_identifier(db_name)
            THEN CorrFail(Err("InvalidIdentifier", db_name, << >>), << >>)
          ELSE IF ~_validate_identifier(value_column)
            THEN CorrFail(Err("InvalidIdentifier", value_column, << >>),
                          << >>)
          ELSE IF db_name \notin Tables
            THEN CorrFail(Err("DatasetNotFound", db_name, << >>),
                          tables_call)
          ELSE IF value_column \notin Range(fields)
            THEN CorrFail(Err("ColumnNotFound", db_name, << >>),
                          tables_call \o fields_call)
          ELSE IF ~grouping.ok
            THEN CorrFail(grouping.err, checked)
          ELSE IF ~Binds(db_name, {grouping.column, value_column}, << >>)
            THEN CorrFail(Err("EngineError", db_name, << >>),
                          checked \o top_items)
          ELSE \E labels \in TopItems(db_name, grouping.column, value_column,
                                      body.max_items) :
                /\ calls' = checked \o top_items
                /\ IF labels = << >>
                     THEN /\ pc' = "done"
                          /\ response' = [NoResponse EXCEPT !.status = "ok"]
                          /\ UNCHANGED idx
                     ELSE /\ pc' = "cells"
                          /\ idx' = 1
                          /\ response' = [NoResponse EXCEPT
                                            !.values = labels,
                                            !.summary = grouping.column]
    /\ UNCHANGED <<world, body, regulator_sets, results, unique_values>>

\* The statement text between the quotes of a literal: f"'{label}'" splices
\* the label as it is.
Splice(label) == label
\* The engine reads a literal up to the first quote that is not doubled: the
\* spliced text stays inside its literal when all its quotes are in pairs.
LiteralCloses(lit) == Escape(Unescape(lit)) = lit
\* WHERE {group_column} IN ('{label_a}', '{label_b}');
\* WHERE {group_column} = '{label_a}' and = '{label_b}' in corr_sql.
LabelClause(group_column, label_a, label_b) ==
    [field |-> group_column, cmp |-> "IN",
     lits |-> <<Splice(label_a), Splice(label_b)>>, num |-> 0]

\* One turn of the inner loop: the pair (i, j), j >= i. A statement whose
\* literal ends early does not parse and vdb.query raises.
CorrCell ==
    /\ pc = "cells"
    /\ IsCorrelation
    /\ idx <= PairCount(Len(response.values))
    /\ LET labels == response.values
           group_column == response.summary
           p == PairAt(Len(labels), idx)
           label_a == labels[p[1]]
           label_b == labels[p[2]]
           observations == VectorRows(body.db_name, group_column,
                                      body.value_column, label_a, label_b)
           where == LabelClause(group_column, label_a, label_b)
           vectors == Call(1, "query", body.db_name, FALSE, <<where>>, 0, 0)
       IN IF p[1] = p[2]
            THEN /\ results' = Append(results,
                        Pair(0, FALSE, NullV,
                             CorrelationCell(label_a, label_b, IntV(1))))
                 /\ idx' = idx + 1
                 /\ UNCHANGED <<calls, pc, response>>
          ELSE IF \E l \in 1..Len(where.lits) : ~LiteralCloses(where.lits[l])
            THEN /\ pc' = "failed"
                 /\ response' = ErrorResponse(
                                    Err("EngineError", body.db_name, << >>))
                 /\ calls' = Append(calls, vectors)
                 /\ UNCHANGED <<idx, results>>
          ELSE IF observations < 2
            THEN /\ results' = Append(results,
                        Pair(observations, FALSE, NullV,
                             CorrelationCell(label_a, label_b, IntV(0))))
                 /\ calls' = Append(calls, vectors)
                 /\ idx' = idx + 1
                 /\ UNCHANGED <<pc, response>>
          ELSE \E aggregate \in Corr(body.db_name, group_column,
                                     body.value_column, label_a, label_b) :
                 /\ results' = Append(results,
                        Pair(observations, TRUE, aggregate,
                             CorrelationCell(label_a, label_b,
                                             Correlation(aggregate))))
                 /\ calls' = calls \o <<vectors, vectors>>
                 /\ idx' = idx + 1
                 /\ UNCHANGED <<pc, response>>
    /\ UNCHANGED <<world, body, regulator_sets, unique_values>>

CorrReturn ==
    /\ pc = "cells"
    /\ IsCorrelation
    /\ idx > PairCount(Len(response.values))
    /\ pc' = "done"
    /\ response' = [response EXCEPT
                        !.status = "ok",
                        !.cells = [k \in 1..Len(results) |-> results[k].cell]]
    /\ UNCHANGED <<world, body, idx, calls, regulator_sets, results,
                   unique_values>>

(***************************************************************************)
(* One request against a live schema                                       *)
(***************************************************************************)
MaxDatasets == 3
MaxPage == 2
MaxPageSize == 2

RequestNames == {harbison, rossi_combined, drop_table}
DatasetLists == UNION {[1..n -> RequestNames] : n \in 0..MaxDatasets}
\* The lookup is also asked for a dataset that no schema registers.
LookupLists ==
    UNION {[1..n -> RequestNames \cup {nonexistent}] : n \in 0..MaxDatasets}

\* The filter parts of a request body (IntersectionRequest, AnalysisRequest).
NoFilters == [filters |-> << >>, numeric_filters |-> << >>]
Categorical(ds, field, values) ==
    [filters |-> <<[key |-> ds,
                    items |-> <<[field |-> field, values |-> values]>>]>>,
     numeric_filters |-> << >>]
Numeric(ds, field, has_min, min_value, has_max, max_value) ==
    [filters |-> << >>,
     numeric_filters |->
        <<[key |-> ds,
           items |-> <<[field |-> field,
                        has_min |-> has_min, min_value |-> min_value,
                        has_max |-> has_max, max_value |-> max_value]>>]>>]
FilterSpecs ==
    <<NoFilters,
      Categorical(harbison, carbon_source, <<glucose>>),
      Categorical(rossi_combined, carbon_source, <<glucose>>),
      Categorical(rossi_combined, carbon_source, <<NoName>>),
      Categorical(harbison, bad_field, <<glucose>>),
      Numeric(harbison, effect_, TRUE, 2, TRUE, 1),
      Numeric(rossi_combined, effect_, TRUE, 2, FALSE, 0),
      Categorical(harbison, carbon_source, <<L1>>)>>

Body(op, datasets, spec, page, page_size, column) ==
    [op |-> op, table |-> NoName, datasets |-> datasets,
     filters |-> spec.filters,
     numeric_filters |-> spec.numeric_filters, page |-> page,
     page_size |-> page_size, column |-> column]

\* Live schemas for the intersection: the metadata view of harbison, and of
\* rossi_combined with its supplemental views. The number picks the content
\* of a view, 0 for a view that is not registered.
harbison_meta == harbison \o _meta
rossi_combined_meta == rossi_combined \o _meta
rossi_combined_regmeta_meta == rossi_combined_regmeta \o _meta
MetaViews(h, b, r, m) ==
    LET present == (IF h = 0 THEN {} ELSE {harbison_meta})
                   \cup (IF b = 0 THEN {} ELSE {rossi_combined_meta})
                   \cup (IF r = 0 THEN {} ELSE {rossi_combined_regmeta})
                   \cup (IF m = 0 THEN {}
                         ELSE {rossi_combined_regmeta_meta})
    IN [t \in present |->
          IF t = harbison_meta
            THEN (IF h = 1 THEN HarbisonMeta ELSE MetaNoRegulator)
          ELSE IF t = rossi_combined_meta
            THEN (IF b = 1 THEN RossiMeta
                  ELSE IF b = 2 THEN MetaNoRegulator ELSE MetaIdOnly)
          ELSE IF t = rossi_combined_regmeta
            THEN (IF r = 1 THEN RegmetaSampleId
                  ELSE IF r = 2 THEN RegmetaId ELSE RegmetaNoSample)
          ELSE RegmetaMeta]

\* Live schemas for the listings and the filter-value lookup: the data views.
DataViews(h, b) ==
    LET present == (IF h = 0 THEN {} ELSE {harbison})
                   \cup (IF b = 0 THEN {} ELSE {rossi_combined})
    IN [t \in present |->
          IF t = harbison
            THEN (IF h = 1 THEN HarbisonMeta ELSE MetaIdOnly)
          ELSE (IF b = 1 THEN RossiMeta ELSE MetaIdOnly)]

Columns == {carbon_source, effect_, regulator_symbol, nonexistent_column,
            bad_field}

GuardIdle ==
    /\ disk = [ok |-> TRUE, keys |-> {UnmanagedKey}]
    /\ handles = <<[complete |-> TRUE, cfg |-> disk.keys]>>
    /\ vdb = 1
    /\ lock = 0
    /\ req = [r \in Requests |-> IdleReq]
    /\ access = NoAccess

InitIntersection ==
    \E h \in 0..2, b \in 0..3, r \in 0..3, m \in 0..1,
       hc \in BOOLEAN, rc \in BOOLEAN, raises \in BOOLEAN,
       ds \in DatasetLists, k \in DOMAIN FilterSpecs :
        /\ h # 0 => hc
        /\ (b # 0 \/ r # 0 \/ m # 0) => rc
        /\ world = World(MetaViews(h, b, r, m),
                         (IF hc THEN {harbison} ELSE {})
                            \cup (IF rc THEN {rossi_combined} ELSE {}),
                         raises)
        /\ body = Body("compute_intersection", ds, FilterSpecs[k], 1, 1,
                       NoName)

InitListing ==
    \E h \in 0..2, b \in 0..2, ds \in DatasetLists, k \in DOMAIN FilterSpecs,
       op \in {"binding_analysis", "perturbation_analysis"},
       page \in 1..MaxPage, page_size \in 1..MaxPageSize :
        /\ world = World(DataViews(h, b),
                         (IF h # 0 THEN {harbison} ELSE {})
                            \cup (IF b # 0 THEN {rossi_combined} ELSE {}),
                         FALSE)
        /\ body = Body(op, ds, FilterSpecs[k], page, page_size, NoName)

InitFilterValues ==
    \E h \in 0..2, b \in 0..2, ds \in LookupLists, column \in Columns :
        /\ world = World(DataViews(h, b),
                         (IF h # 0 THEN {harbison} ELSE {})
                            \cup (IF b # 0 THEN {rossi_combined} ELSE {}),
                         FALSE)
        /\ body = Body("analysis_filter_options", ds, NoFilters, 1, 1, column)

\* Live schemas for the filter-option derivation: the data view and the
\* metadata view of harbison.
OptionViews(d, k) ==
    LET present == (IF d = 0 THEN {} ELSE {harbison})
                   \cup (IF k = 0 THEN {} ELSE {harbison_meta})
    IN [t \in present |->
          IF t = harbison
            THEN (IF d = 1 THEN HarbisonMeta ELSE MetaIdOnly)
          ELSE (IF k = 1 THEN HarbisonMeta
                ELSE IF k = 2 THEN MetaNoRegulator
                ELSE IF k = 3 THEN MetaIdOnly ELSE WideMeta)]
PathBody(op, table) ==
    [Body(op, << >>, NoFilters, 1, 1, NoName) EXCEPT !.table = table]

InitOptions ==
    \E d \in 0..2, k \in 0..4, hc \in BOOLEAN, raises \in BOOLEAN,
       op \in {"filter_options", "source_summary"},
       table \in {harbison, harbison_meta, drop_table} :
        /\ (d # 0 \/ k # 0) => hc
        /\ world = World(OptionViews(d, k),
                         IF hc THEN {harbison} ELSE {}, raises)
        /\ body = PathBody(op, table)

MaxItems == 3
GroupModes == {"regulator", "sample", "target"}
\* d: the data view (absent, full, without sample_id, without a regulator
\* column, without values); k: the metadata view (absent, with, without a regulator column).
CorrelationViews(d, k) ==
    LET present == (IF d = 0 THEN {} ELSE {harbison})
                   \cup (IF k = 0 THEN {} ELSE {harbison_meta})
    IN [t \in present |->
          IF t = harbison
            THEN (IF d = 1 THEN CorrelationData
                  ELSE IF d = 4 THEN CorrelationNoValues
                  ELSE IF d = 5 THEN CorrelationQuoted
                  ELSE IF d = 2
                    THEN Project(CorrelationData,
                                 <<regulator_symbol, effect_>>)
                  ELSE Project(CorrelationData, <<sample_id, effect_>>))
          ELSE (IF k = 1 THEN HarbisonMeta ELSE MetaNoRegulator)]
InitCorrelation ==
    \E d \in 0..5, k \in 0..2, raises \in BOOLEAN,
       db_name \in {harbison, drop_table},
       value_column \in {effect_, nonexistent_column, bad_field},
       group_by \in GroupModes, max_items \in 1..MaxItems :
        /\ world = World(CorrelationViews(d, k), {harbison}, raises)
        /\ body = [op |-> "correlation_matrix", db_name |-> db_name,
                   value_column |-> value_column, group_by |-> group_by,
                   max_items |-> max_items]

InitQuery ==
    \E h \in 0..2, b \in 0..2, table \in {harbison, rossi_combined},
       page \in 1..MaxPage, page_size \in 1..MaxPageSize :
        /\ world = World(DataViews(h, b),
                         (IF h # 0 THEN {harbison} ELSE {})
                            \cup (IF b # 0 THEN {rossi_combined} ELSE {}),
                         FALSE)
        /\ body = [PathBody("execute_query", table) EXCEPT
                        !.page = page, !.page_size = page_size]

InitRequest ==
    /\ GuardIdle
    /\ \/ InitIntersection
       \/ InitListing
       \/ InitFilterValues
       \/ InitOptions
       \/ InitCorrelation
       \/ InitQuery
    /\ pc = "start"
    /\ idx = 0
    /\ calls = << >>
    /\ regulator_sets = << >>
    /\ results = << >>
    /\ unique_values = {}
    /\ response = NoResponse

NextRequest ==
    \/ IxStart /\ UNCHANGED guardVars
    \/ IxDataset /\ UNCHANGED guardVars
    \/ IxCells /\ UNCHANGED guardVars
    \/ ExecuteQuery /\ UNCHANGED guardVars
    \/ CorrStart /\ UNCHANGED guardVars
    \/ CorrCell /\ UNCHANGED guardVars
    \/ CorrReturn /\ UNCHANGED guardVars
    \/ ListStart /\ UNCHANGED guardVars
    \/ ListDataset /\ UNCHANGED guardVars
    \/ ListReturn /\ UNCHANGED guardVars
    \/ FvStart /\ UNCHANGED guardVars
    \/ FvDataset /\ UNCHANGED guardVars
    \/ FvReturn /\ UNCHANGED guardVars
    \/ FoStart /\ UNCHANGED guardVars
    \/ FoField /\ UNCHANGED guardVars
    \/ FoReturn /\ UNCHANGED guardVars
    \/ SsStart /\ UNCHANGED guardVars
    \/ SsField /\ UNCHANGED guardVars
    \/ SsReturn /\ UNCHANGED guardVars

SpecRequest == InitRequest /\ [][NextRequest]_vars

(***************************************************************************)
(* Claims about the intersection matrix                                    *)
(***************************************************************************)
IsIntersection == body.op = "compute_intersection"
\* Position of the cell (i, j), i <= j, in a row-major upper triangle of an
\* N x N matrix.
CellIndex(N, i, j) == (i - 1) * (N + 1) - ((i - 1) * i) \div 2 + (j - i + 1)

\* C5: a successful intersection over N datasets returns exactly N(N+1)/2
\* cells, the cell for each pair i <= j at its row-major position with
\* row = datasets[i] and col = datasets[j], and so no cell with j < i.
C5_UpperTriangleRowMajor ==
    (IsIntersection /\ pc = "done") =>
        LET N == Len(body.datasets)
        IN /\ response.status = "ok"
           /\ Len(response.cells) = (N * (N + 1)) \div 2
           /\ \A i \in 1..N : \A j \in i..N :
                /\ response.cells[CellIndex(N, i, j)].row = body.datasets[i]
                /\ response.cells[CellIndex(N, i, j)].col = body.datasets[j]
C5_Witness ==
    /\ IsIntersection
    /\ pc = "done"
    /\ Len(body.datasets) = MaxDatasets
    /\ body.datasets[1] # body.datasets[2]
    /\ Len(response.cells) = 6

\* The regulator values the statement of dataset d selects: the regulator
\* column of the first candidate view that has one, over the rows that pass
\* d's filters (for a supplemental view, the rows whose sample is a filtered
\* sample of the base view), without NULL, as strings.
ResolvingTables(d) ==
    LET candidates == _candidate_regulator_tables(d)
    IN {k \in 1..Len(candidates) :
            /\ candidates[k] \in world.tables
            /\ _resolve_regulator_identifier(world.fields[candidates[k]])
                  # << >>}
ExpectedRegulators(d) ==
    LET candidates == _candidate_regulator_tables(d)
        k == CHOOSE x \in ResolvingTables(d) :
                \A y \in ResolvingTables(d) : x <= y
        t == candidates[k]
        f == _resolve_regulator_identifier(world.fields[t])
        base == d \o _meta
        clauses == _build_where_sql(body, d).clauses
        passing == {row \in world.rows[base] :
                        \A c \in 1..Len(clauses) :
                            ClauseHolds(row, clauses[c])}
        bs == QueryResolveSampleIdentifier(world.fields[base])
        ss == _resolve_join_sample_identifier(world.fields[t], bs)
        chosen == IF t = base THEN passing
                  ELSE {row \in world.rows[t] :
                            \E p \in passing :
                                /\ p[bs] # NullV
                                /\ row[ss] # NullV
                                /\ Str(p[bs]) = Str(row[ss])}
    IN {Str(row[f]) : row \in {x \in chosen : x[f] # NullV}}

\* C6: in a successful intersection, the diagonal cell of d counts the
\* distinct non-null stringified regulator values of d after its filters,
\* the cell of (a, b) counts the values the two sets share, and so a cell is
\* never above the diagonal cell of its row or of its column.
C6_CellCounts ==
    (IsIntersection /\ pc = "done") =>
        LET N == Len(body.datasets)
            cell(i, j) == response.cells[CellIndex(N, i, j)].count
            set(i) == ExpectedRegulators(body.datasets[i])
        IN \A i \in 1..N : \A j \in i..N :
                /\ i = j => cell(i, j) = Cardinality(set(i))
                /\ i # j => cell(i, j) = Cardinality(set(i) \cap set(j))
                /\ cell(i, j) <= cell(i, i)
                /\ cell(i, j) <= cell(j, j)
C6_Witness ==
    /\ IsIntersection
    /\ pc = "done"
    /\ Len(body.datasets) = 2
    /\ NullV \in {row[regulator_symbol] : row \in world.rows[harbison_meta]}
    /\ response.cells[2].count >= 1
    /\ response.cells[2].count < response.cells[1].count
    /\ response.cells[2].count < response.cells[3].count

\* The dataset the failed pass was working on.
FailedDataset == body.datasets[idx]
FailedAtDataset == pc = "failed" /\ idx \in 1..Len(body.datasets)
ExistingCandidates(d) ==
    {t \in Range(_candidate_regulator_tables(d)) : t \in world.tables}

\* C7: when no candidate view of a dataset yields a regulator field, the
\* intersection fails with DatasetConfiguredButUnavailable if the dataset is
\* configured and none of its candidate views exists, and otherwise with
\* UnresolvedRegulatorField listing every candidate view that was checked.
C7_UnavailableIsDistinguished ==
    (/\ IsIntersection
     /\ FailedAtDataset
     /\ _build_where_sql(body, FailedDataset).ok
     /\ ResolvingTables(FailedDataset) = {}) =>
        IF /\ FailedDataset \in world.configured
           /\ ExistingCandidates(FailedDataset) = {}
          THEN response.err.kind = "DatasetConfiguredButUnavailable"
          ELSE /\ response.err.kind = "UnresolvedRegulatorField"
               /\ response.err.tables =
                        _candidate_regulator_tables(FailedDataset)

\* C8: the statement for a supplemental view joins to the base metadata view
\* only when a filter clause is active for the dataset and the base view is
\* present; otherwise the request does not fail for want of a base view or
\* of a sample identifier in it.
C8_JoinOnlyWhenFiltered ==
    IsIntersection =>
        /\ \A c \in 1..Len(calls) :
                calls[c].join =>
                    /\ calls[c].clauses # << >>
                    /\ (body.datasets[calls[c].pos] \o _meta) \in world.tables
        /\ (/\ FailedAtDataset
            /\ ResolvingTables(FailedDataset) # {}
            /\ response.err.table = FailedDataset \o _meta
            /\ response.err.kind \in {"UnresolvedSampleField",
                                       "EngineError"}) =>
                /\ _build_where_sql(body, FailedDataset).clauses # << >>
                /\ (FailedDataset \o _meta) \in world.tables

(***************************************************************************)
(* Claims about failing fast and about degrading per dataset               *)
(***************************************************************************)
\* A requested dataset that cannot be resolved: for the intersection no
\* candidate view in the live schema has a regulator field, for a listing
\* the view is not registered.
Unresolvable(d) ==
    IF IsIntersection THEN ResolvingTables(d) = {} ELSE d \notin world.tables
UnresolvablePositions ==
    {i \in 1..Len(body.datasets) : Unresolvable(body.datasets[i])}
FirstUnresolvable ==
    CHOOSE i \in UnresolvablePositions :
        \A k \in UnresolvablePositions : i <= k

\* C9: the intersection and the listings fail the whole request at the
\* first requested dataset that cannot be resolved: the request never
\* succeeds, the response carries no cell and no per-dataset result, and no
\* engine call is issued for a dataset listed after that one.
C9_FailFast ==
    ((IsIntersection \/ IsListing) /\ UnresolvablePositions # {}) =>
        /\ pc # "done"
        /\ response.status # "ok"
        /\ response.cells = << >>
        /\ response.entries = << >>
        /\ \A c \in 1..Len(calls) : calls[c].pos <= FirstUnresolvable
        /\ idx <= FirstUnresolvable
        /\ pc = "failed" => response.status = "error"
C9_Witness ==
    /\ IsIntersection
    /\ pc = "failed"
    /\ idx = 2
    /\ Len(body.datasets) = MaxDatasets
    /\ FirstUnresolvable = 2
    /\ response.err.kind = "UnresolvedRegulatorField"
    /\ body.datasets[1] \in DOMAIN regulator_sets
    /\ \E c \in 1..Len(calls) : calls[c].pos = 1 /\ calls[c].kind = "query"

\* The values the lookup is to return: for the requested datasets that are
\* registered and have the column, the non-null values of it, as strings.
ContributingDatasets ==
    {d \in Range(body.datasets) :
        /\ d \in world.tables
        /\ body.column \in Range(world.fields[d])}
ExpectedValues ==
    UNION {{Str(row[body.column]) :
                row \in {x \in world.rows[d] : x[body.column] # NullV}} :
           d \in ContributingDatasets}
ValidLookup ==
    /\ body.op = "analysis_filter_options"
    /\ InvalidNames(body.datasets) = {}
    /\ _validate_identifier(body.column)

\* C10: the filter-value lookup over several datasets never fails because a
\* requested dataset is absent from the live schema or lacks the column:
\* such a dataset is skipped, and the response is the sorted duplicate-free
\* union of the non-null values of the others, the empty list when there is
\* none.
C10_LookupDegradesPerDataset ==
    ValidLookup =>
        /\ pc # "failed"
        /\ response.status # "error"
        /\ pc = "done" =>
            /\ response.status = "ok"
            /\ Range(response.values) = ExpectedValues
            /\ \A i \in 1..Len(response.values) :
                \A j \in 1..Len(response.values) :
                    i < j => StrLess(response.values[i], response.values[j])
C10_Witness ==
    /\ ValidLookup
    /\ pc = "done"
    /\ \E i \in 1..Len(body.datasets) : body.datasets[i] \notin world.tables
    /\ \E i \in 1..Len(body.datasets) :
            /\ body.datasets[i] \in world.tables
            /\ body.column \notin Range(world.fields[body.datasets[i]])
    /\ Len(response.values) >= 2

(***************************************************************************)
(* Claims about the filter-option derivation                               *)
(***************************************************************************)
\* C11: per-table filter options for the metadata view of a dataset that is
\* configured but has no view registered succeed with an empty option list:
\* the request does not fail and returns no option.
C11_UnregisteredOptionsEmpty ==
    (/\ body.op = "filter_options"
     /\ body.table = harbison_meta
     /\ harbison \in world.configured
     /\ world.tables = {}) =>
        /\ pc # "failed"
        /\ response.status # "error"
        /\ pc = "done" => response.entries = << >>

DerivesOptions == body.op \in {"filter_options", "source_summary"}
DerivedFrom == IF body.op = "filter_options" THEN body.table
               ELSE body.table \o _meta
\* C12: no categorical option of the derivation carries more than 100
\* values: a non-numeric column with more than 100, or with no, distinct
\* non-null values has no option at all; and no numeric option has both its
\* minimum and its maximum absent.
C12_OptionsAreBounded ==
    (DerivesOptions /\ pc = "done") =>
        \A o \in Range(response.entries) :
            /\ o.kind = "categorical" =>
                    /\ Len(o.values) > 0
                    /\ Len(o.values) <= CategoricalLimit
                    /\ SelectCountDistinct(o.field, DerivedFrom)
                            <= CategoricalLimit
            /\ o.kind = "numeric" => o.min_value.has \/ o.max_value.has

(***************************************************************************)
(* The walk over the candidate views                                       *)
(***************************************************************************)
\* <dataset>_meta, then <supplemental>_meta and <supplemental> for each
\* supplemental config in declared order.
CandidateOrder(d) ==
    LET supplementals == IF d \in CatalogDbNames THEN SupplementalDbNames(d)
                         ELSE << >>
    IN [k \in 1..(1 + 2 * Len(supplementals)) |->
            IF k = 1 THEN d \o _meta
            ELSE IF k % 2 = 0 THEN supplementals[k \div 2] \o _meta
            ELSE supplementals[k \div 2]]
Resolves(table) ==
    /\ table \in world.tables
    /\ Range(world.fields[table])
         \cap {regulator_, tf_, regulator_symbol, regulator_locus_tag,
               gene_symbol} # {}
FirstResolving(d) ==
    LET order == CandidateOrder(d)
        resolving == {k \in 1..Len(order) : Resolves(order[k])}
    IN IF resolving = {} THEN 0
       ELSE CHOOSE k \in resolving : \A j \in resolving : k <= j
\* The pass over body.datasets[pos] has run, to its end or to its failure.
PassRan(pos) ==
    \/ pc = "done"
    \/ pc = "loop" /\ pos < idx
    \/ pc = "failed" /\ pos <= idx
\* The views the walk of that pass inspected after the look at the base
\* view that precedes the walk, and the views it queried.
Inspected(pos) ==
    LET looked == SelectSeq(calls,
                    LAMBDA c : c.pos = pos /\ c.kind = "fields")
    IN IF looked = << >> THEN << >>
       ELSE [k \in 1..(Len(looked) - 1) |-> looked[k + 1].table]
Queried(pos) ==
    LET asked == SelectSeq(calls, LAMBDA c : c.pos = pos /\ c.kind = "query")
    IN [k \in 1..Len(asked) |-> asked[k].table]
Unfiltered == body.filters = << >> /\ body.numeric_filters = << >>

\* The walk keeps the candidate order, passes over views that are absent or
\* have no regulator field, and stops at the first view that resolves: what
\* it inspected is a prefix of the candidate order, only the last inspected
\* view can resolve, and only that view is queried, once.
WalkKeepsOrder ==
    IsIntersection =>
        \A pos \in 1..Len(body.datasets) : PassRan(pos) =>
            LET order == CandidateOrder(body.datasets[pos])
                seen == Inspected(pos)
            IN /\ Len(seen) <= Len(order)
               /\ \A k \in 1..Len(seen) : seen[k] = order[k]
               /\ \A k \in 1..(Len(seen) - 1) : ~Resolves(seen[k])
               /\ Len(Queried(pos)) <= 1
               /\ Queried(pos) # << >> =>
                    /\ seen # << >>
                    /\ Queried(pos)[1] = seen[Len(seen)]
                    /\ Resolves(seen[Len(seen)])
WalkKeepsOrderWitness ==
    /\ IsIntersection /\ pc = "done"
    /\ body.datasets = <<rossi_combined>>
    /\ Inspected(1) = <<rossi_combined_meta, rossi_combined_regmeta_meta,
                        rossi_combined_regmeta>>
    /\ Queried(1) = <<rossi_combined_regmeta>>

\* C21: each dataset's candidates are examined in the order <dataset>_meta,
\* <supplemental>_meta, <supplemental>; absent views and views without a
\* regulator field are skipped; the regulator set is taken from the first
\* candidate that resolves, and no later candidate is inspected or queried.
C21_FirstResolvingCandidate ==
    (IsIntersection /\ Unfiltered) =>
        \A pos \in 1..Len(body.datasets) : PassRan(pos) =>
            LET d == body.datasets[pos]
                order == CandidateOrder(d)
                first == FirstResolving(d)
            IN IF first = 0
                 THEN /\ Queried(pos) = << >>
                      /\ pc = "failed" /\ idx = pos
               ELSE /\ Inspected(pos) = SubSeq(order, 1, first)
                    /\ Queried(pos) = <<order[first]>>
                    /\ ~(pc = "failed" /\ idx = pos)
                    /\ d \in DOMAIN regulator_sets

(***************************************************************************)
(* Correlation                                                             *)
(***************************************************************************)
CorrelationDone == IsCorrelation /\ pc = "done"

\* C18: in a correlation response every self-cell is exactly 1.0, every
\* cross pair with fewer than 2 combined non-null observations or with an
\* undefined aggregate (NULL or NaN) is 0.0, and no cell is NaN.
C18_CorrelationCells ==
    CorrelationDone =>
        /\ Len(response.cells) = PairCount(Len(response.values))
        /\ \A k \in 1..Len(response.cells) :
            LET cell == response.cells[k]
                seen == results[k]
                p == PairAt(Len(response.values), k)
            IN /\ cell.row = response.values[p[1]]
               /\ cell.col = response.values[p[2]]
               /\ cell.value.t = "int"
               /\ p[1] = p[2] => cell.value = IntV(1)
               /\ (/\ p[1] # p[2]
                   /\ \/ seen.observations < 2
                      \/ seen.queried /\ seen.aggregate.t \in {"null", "nan"})
                    => cell.value = IntV(0)
C18_Witness ==
    /\ CorrelationDone
    /\ Len(response.values) = 3
    /\ \E k \in 1..Len(results) :
            /\ results[k].queried
            /\ results[k].aggregate = NaNV
            /\ response.cells[k].value = IntV(0)
    /\ \E k \in 1..Len(results) :
            /\ results[k].queried
            /\ results[k].aggregate.t = "int"
    /\ \E k \in 1..Len(results) :
            /\ response.cells[k].row = response.cells[k].col
            /\ response.cells[k].value = IntV(1)

\* The column a successful correlation grouped by, and the number of rows of
\* a key in which key and value are both non-null.
GroupedBy ==
    IF body.group_by = "sample" THEN sample_id
    ELSE _resolve_regulator_identifier(world.fields[body.db_name \o _meta])
Frequency(key) ==
    Cardinality({r \in world.rows[body.db_name] :
                    /\ r[GroupedBy].t # "null"
                    /\ r[body.value_column].t # "null"
                    /\ Str(r[GroupedBy]) = key})
Keys == {Str(r[GroupedBy]) :
            r \in {x \in world.rows[body.db_name] : x[GroupedBy].t # "null"}}

\* C23: a successful correlation response has at most max_items labels,
\* distinct keys that each have a row with key and value non-null, no omitted
\* key being strictly more frequent than a selected one; for L labels it has
\* L(L+1)/2 cells, one per pair i <= j in label order; when no key qualifies
\* it has no labels and no cells.
C23_CorrelationLabels ==
    CorrelationDone =>
        LET labels == response.values
            L == Len(labels)
        IN /\ L <= body.max_items
           /\ \A i, j \in 1..L : i # j => labels[i] # labels[j]
           /\ \A i \in 1..L : labels[i] \in Keys /\ Frequency(labels[i]) >= 1
           /\ \A k \in Keys \ Range(labels) :
                \A i \in 1..L : Frequency(k) <= Frequency(labels[i])
           /\ Len(response.cells) = (L * (L + 1)) \div 2
           /\ \A i \in 1..L : \A j \in i..L :
                LET cell == response.cells[
                                (i - 1) * L - ((i - 1) * (i - 2)) \div 2
                                    + (j - i + 1)]
                IN cell.row = labels[i] /\ cell.col = labels[j]
           /\ (\A k \in Keys : Frequency(k) = 0) =>
                labels = << >> /\ response.cells = << >>
C23_Witness ==
    /\ CorrelationDone
    /\ body.group_by = "regulator"
    /\ body.max_items = 2
    /\ Len(response.values) = 2
    /\ Len(response.cells) = 3
    /\ Cardinality({k \in Keys : Frequency(k) >= 1}) = 4
C23_WitnessEmpty ==
    /\ CorrelationDone
    /\ Keys # {}
    /\ response.values = << >>

FieldsOf(table) ==
    IF table \in world.tables THEN Range(world.fields[table]) ELSE {}
CorrelationRejected ==
    \/ body.db_name \notin world.tables
    \/ body.value_column \notin FieldsOf(body.db_name)
    \/ body.group_by = "sample" /\ sample_id \notin FieldsOf(body.db_name)
    \/ /\ body.group_by = "regulator"
       /\ FieldsOf(body.db_name \o _meta)
            \cap {regulator_, tf_, regulator_symbol, regulator_locus_tag,
                  gene_symbol} = {}
    \/ body.group_by \notin {"regulator", "sample"}
ClientErrors ==
    {"InvalidIdentifier", "DatasetNotFound", "ColumnNotFound",
     "UnresolvedRegulatorField", "InvalidGroupBy"}

\* C19: a correlation request fails with a client error, without cells and
\* without any frequency or correlation query, when the dataset is absent,
\* the value column is not a field of it, grouping is by sample and
\* sample_id is not a field of the base table, grouping is by regulator and
\* no regulator field resolves in the metadata table, or the grouping mode
\* is neither `regulator` nor `sample`.
C19_CorrelationRejects ==
    (IsCorrelation /\ pc # "start" /\ CorrelationRejected) =>
        /\ pc = "failed"
        /\ response.status = "error"
        /\ response.err.kind \in ClientErrors
        /\ response.cells = << >>
        /\ results = << >>
        /\ \A c \in 1..Len(calls) : calls[c].kind # "query"
C19_Witness ==
    /\ IsCorrelation
    /\ pc = "failed"
    /\ body.db_name \in world.tables
    /\ body.value_column \in FieldsOf(body.db_name)
    /\ body.group_by = "sample"
    /\ sample_id \notin FieldsOf(body.db_name)
    /\ response.err.kind = "ColumnNotFound"

(***************************************************************************)
(* Pagination                                                              *)
(***************************************************************************)
IsPaginated == IsListing \/ body.op = "execute_query"
\* The filtered result the entry was cut from, in the engine's row order.
FilteredResult(entry) ==
    LET where_sql == IF IsListing
                       THEN _build_where_sql(body, entry.db_name).clauses
                     ELSE << >>
    IN SelectSeq(Scan(world.rows[entry.db_name]),
                 LAMBDA row : \A i \in 1..Len(where_sql) :
                                ClauseHolds(row, where_sql[i]))
\* The entries built so far by a listing, or the answer of execute_query.
PageEntries == IF IsListing /\ pc = "loop" THEN results ELSE response.entries

\* C20: a listing entry and a generic query answer for page p and size s
\* hold the rows at offsets (p-1)*s .. p*s-1 of the filtered result, report
\* has_next exactly when p*s < total, and a listed dataset with total 0 gets
\* an entry without rows or columns and has_next false while the listing
\* goes on to the next dataset.
C20_Pagination ==
    IsPaginated =>
        /\ \A e \in 1..Len(PageEntries) :
            LET entry == PageEntries[e]
                p == body.page
                s == body.page_size
                result == FilteredResult(entry)
                offsets == {o \in ((p - 1) * s)..(p * s - 1) :
                                o < Len(result)}
            IN /\ entry.total = Len(result)
               /\ entry.page = p /\ entry.page_size = s
               /\ Len(entry.data) = Cardinality(offsets)
               /\ \A i \in 1..Len(entry.data) :
                    entry.data[i] = result[(p - 1) * s + i]
               /\ entry.has_next <=> (p * s < entry.total)
               /\ (IsListing /\ entry.total = 0) =>
                    /\ entry.data = << >>
                    /\ entry.columns = << >>
                    /\ ~entry.has_next
        /\ (IsListing /\ pc \in {"loop", "done"}) =>
              \A d \in 1..Len(body.datasets) :
                (d < idx \/ pc = "done") =>
                    /\ Len(PageEntries) >= d
                    /\ PageEntries[d].db_name = body.datasets[d]
C20_Witness ==
    /\ IsListing
    /\ pc = "done"
    /\ body.page = 2 /\ body.page_size = 2
    /\ Len(response.entries) = 2
    /\ response.entries[1].total = 0
    /\ response.entries[1].columns = << >>
    /\ response.entries[2].total = 3
    /\ Len(response.entries[2].data) = 1
    /\ ~response.entries[2].has_next
C20_WitnessQuery ==
    /\ body.op = "execute_query"
    /\ pc = "done"
    /\ body.page = 2 /\ body.page_size = 2
    /\ response.entries[1].total = 5
    /\ Len(response.entries[1].data) = 2
    /\ response.entries[1].has_next

(***************************************************************************)
(* Quoted literals                                                         *)
(***************************************************************************)
\* The literals of the statements issued so far.
SplicedLiterals ==
    UNION {UNION {Range(calls[c].clauses[k].lits) :
                    k \in {x \in 1..Len(calls[c].clauses) :
                                calls[c].clauses[x].cmp = "IN"}} :
            c \in 1..Len(calls)}

\* C30: every string spliced into a statement as a quoted literal, a
\* categorical filter value or a correlation group label read back from the
\* data, has each of its single quotes doubled, so that the text between the
\* quotes of the literal never ends it; a label's literal is the escaped
\* form of a key of the data.
C30_LiteralsEscaped ==
    \A lit \in SplicedLiterals :
        /\ LiteralCloses(lit)
        /\ IsCorrelation => \E key \in Keys : lit = Escape(key)

(***************************************************************************)
(* The helpers on their own: each applied once to an input                 *)
(***************************************************************************)
MaxNameLen == 3
\* A letter of each case, a digit, the underscore, and characters that no
\* identifier holds.
Alphabet == {"a", "Z", "0", "_", " ", "'", NL}
Strings == UNION {[1..n -> Alphabet] : n \in 0..MaxNameLen}

HelperIdle ==
    /\ GuardIdle
    /\ world = World(DataViews(0, 0), {}, FALSE)
    /\ pc = "start"
    /\ idx = 0
    /\ calls = << >>
    /\ regulator_sets = << >>
    /\ results = << >>
    /\ unique_values = {}
    /\ response = NoResponse
Returned(value) == [NoResponse EXCEPT !.status = "ok", !.values = value]
HelperFrame ==
    UNCHANGED <<guardVars, world, body, idx, calls, regulator_sets, results,
                unique_values>>

InitValidate == \E name \in Strings :
    body = [op |-> "_validate_identifier", name |-> name]
ApplyValidate ==
    /\ pc = "start"
    /\ body.op = "_validate_identifier"
    /\ IF _validate_identifier(body.name)
         THEN pc' = "done" /\ response' = Returned(body.name)
         ELSE /\ pc' = "failed"
              /\ response' = ErrorResponse(
                                Err("InvalidIdentifier", body.name, << >>))
    /\ HelperFrame

\* C13: _validate_identifier returns its input unchanged for exactly the
\* strings whose first character is a letter or underscore and whose other
\* characters are letters, digits or underscores, and fails with
\* InvalidIdentifier for every other string, the empty one included.
C13_ValidateIdentifierExact ==
    (body.op = "_validate_identifier" /\ pc # "start") =>
        IF IsIdentifier(body.name)
          THEN pc = "done" /\ response.values = body.name
          ELSE pc = "failed" /\ response.err.kind = "InvalidIdentifier"

MaxBound == 2
\* A NumericRangeFilter: either bound may be absent.
RangeFilters ==
    {[has_min |-> FALSE, min_value |-> 0, has_max |-> FALSE, max_value |-> 0]}
    \cup {[has_min |-> TRUE, min_value |-> lo, has_max |-> FALSE,
           max_value |-> 0] : lo \in 0..MaxBound}
    \cup {[has_min |-> FALSE, min_value |-> 0, has_max |-> TRUE,
           max_value |-> hi] : hi \in 0..MaxBound}
    \cup {[has_min |-> TRUE, min_value |-> lo, has_max |-> TRUE,
           max_value |-> hi] : lo \in 0..MaxBound, hi \in 0..MaxBound}
NumericItem(field, range) ==
    [field |-> field, has_min |-> range.has_min,
     min_value |-> range.min_value, has_max |-> range.has_max,
     max_value |-> range.max_value]
NumericFields == {effect_, pvalue_, bad_field}
\* numeric_filters[harbison]: no, one or two fields.
NumericItemLists ==
    {<< >>}
    \cup {<<NumericItem(f, r)>> : f \in NumericFields, r \in RangeFilters}
    \cup {<<NumericItem(fg[1], r), NumericItem(fg[2], q)>> :
            fg \in {p \in NumericFields \X NumericFields : p[1] # p[2]},
            r \in RangeFilters, q \in RangeFilters}

InitWhereNumeric ==
    \E items \in NumericItemLists, dataset_name \in {harbison, rossi_combined} :
        body = [op |-> "_build_where_sql", dataset_name |-> dataset_name,
                filters |-> << >>,
                numeric_filters |-> <<[key |-> harbison, items |-> items]>>]

ApplyBuildWhere ==
    /\ pc = "start"
    /\ body.op = "_build_where_sql"
    /\ LET where_sql == _build_where_sql(body, body.dataset_name)
       IN IF where_sql.ok
            THEN /\ pc' = "done"
                 /\ response' = [Returned(where_sql.clauses) EXCEPT
                                    !.summary = where_sql.sql]
            ELSE /\ pc' = "failed"
                 /\ response' = ErrorResponse(
                        Err(where_sql.err, body.dataset_name, << >>))
    /\ HelperFrame

\* The numeric filters of the named dataset, in request order.
NamedNumeric == Get(body.numeric_filters, body.dataset_name)
AppliedWhereNumeric ==
    /\ body.op = "_build_where_sql"
    /\ body.filters = << >>
    /\ pc # "start"
    /\ \A i \in 1..Len(NamedNumeric) : IsIdentifier(NamedNumeric[i].field)
ClauseCount(field, cmp, num) ==
    Cardinality({c \in 1..Len(response.values) :
                    /\ response.values[c].field = field
                    /\ response.values[c].cmp = cmp
                    /\ response.values[c].num = num})
BoundCount(f) == (IF f.has_min THEN 1 ELSE 0) + (IF f.has_max THEN 1 ELSE 0)
RECURSIVE SumBounds(_)
SumBounds(items) ==
    IF items = << >> THEN 0 ELSE BoundCount(Head(items)) + SumBounds(Tail(items))

\* C14: for each numeric filter field of the named dataset _build_where_sql
\* emits `field >= min` exactly when min is present and `field <= max`
\* exactly when max is present; with both present and min > max it fails
\* with InvalidRange and returns no clause, and min = max is accepted.
C14_NumericBounds ==
    AppliedWhereNumeric =>
        IF \E i \in 1..Len(NamedNumeric) :
                /\ NamedNumeric[i].has_min
                /\ NamedNumeric[i].has_max
                /\ NamedNumeric[i].min_value > NamedNumeric[i].max_value
          THEN /\ pc = "failed"
               /\ response.err.kind = "InvalidRange"
               /\ response.values = << >>
          ELSE /\ pc = "done"
               /\ Len(response.values) = SumBounds(NamedNumeric)
               /\ \A i \in 1..Len(NamedNumeric) :
                    LET f == NamedNumeric[i]
                    IN /\ f.has_min =>
                            ClauseCount(f.field, ">=", f.min_value) = 1
                       /\ f.has_max =>
                            ClauseCount(f.field, "<=", f.max_value) = 1
C14_Witness ==
    /\ AppliedWhereNumeric
    /\ pc = "done"
    /\ Len(NamedNumeric) = 2
    /\ NamedNumeric[1].has_min /\ NamedNumeric[1].has_max
    /\ NamedNumeric[1].min_value = NamedNumeric[1].max_value
    /\ ~NamedNumeric[2].has_min /\ NamedNumeric[2].has_max
    /\ Len(response.values) = 3

MaxValues == 2
\* Values of a categorical filter: the empty string, a plain value, and
\* values that hold single quotes.
FilterValues == {NoName, glucose, <<"o", "'", "b">>, <<"'", "'">>}
ValueLists == UNION {[1..n -> FilterValues] : n \in 0..MaxValues}
CategoricalFields == {carbon_source, strain_, bad_field}
CategoricalItem(field, values) == [field |-> field, values |-> values]
\* filters[harbison]: no, one or two fields.
CategoricalItemLists ==
    {<< >>}
    \cup {<<CategoricalItem(f, v)>> :
            f \in CategoricalFields, v \in ValueLists}
    \cup {<<CategoricalItem(fg[1], v), CategoricalItem(fg[2], w)>> :
            fg \in {p \in CategoricalFields \X CategoricalFields :
                        p[1] # p[2]},
            v \in ValueLists, w \in ValueLists}

InitWhereCategorical ==
    \E items \in CategoricalItemLists,
       dataset_name \in {harbison, rossi_combined} :
        body = [op |-> "_build_where_sql", dataset_name |-> dataset_name,
                filters |-> <<[key |-> harbison, items |-> items]>>,
                numeric_filters |-> << >>]

NamedCategorical == Get(body.filters, body.dataset_name)
AppliedWhereCategorical ==
    /\ body.op = "_build_where_sql"
    /\ body.numeric_filters = << >>
    /\ pc # "start"
NonEmpty(values) == SelectSeq(values, LAMBDA v : v # << >>)
QuoteCount(v) == Cardinality({i \in 1..Len(v) : v[i] = "'"})
ClausesOf(field) ==
    SelectSeq(response.values, LAMBDA c : c.field = field)

\* C15: for each categorical filter field of the named dataset
\* _build_where_sql validates the field name, failing with InvalidIdentifier
\* otherwise, drops the empty values, doubles every single quote of the
\* others and emits one `field IN (...)` with them in request order; a field
\* with only empty values contributes no clause.
C15_CategoricalClauses ==
    AppliedWhereCategorical =>
        IF \E i \in 1..Len(NamedCategorical) :
                ~IsIdentifier(NamedCategorical[i].field)
          THEN /\ pc = "failed"
               /\ response.err.kind = "InvalidIdentifier"
               /\ response.values = << >>
          ELSE /\ pc = "done"
               /\ \A c \in 1..Len(response.values) :
                    \E i \in 1..Len(NamedCategorical) :
                        response.values[c].field = NamedCategorical[i].field
               /\ \A i \in 1..Len(NamedCategorical) :
                    LET f == NamedCategorical[i]
                        kept == NonEmpty(f.values)
                        emitted == ClausesOf(f.field)
                    IN IF kept = << >> THEN emitted = << >>
                       ELSE /\ Len(emitted) = 1
                            /\ emitted[1].cmp = "IN"
                            /\ Len(emitted[1].lits) = Len(kept)
                            /\ \A k \in 1..Len(kept) :
                                LET lit == emitted[1].lits[k]
                                IN /\ Len(lit) = Len(kept[k])
                                                    + QuoteCount(kept[k])
                                   /\ QuoteCount(lit)
                                            = 2 * QuoteCount(kept[k])
                                   /\ Unescape(lit) = kept[k]
C15_Witness ==
    /\ AppliedWhereCategorical
    /\ pc = "done"
    /\ Len(NamedCategorical) = 2
    /\ NamedCategorical[1].values = <<NoName, NoName>>
    /\ NamedCategorical[2].values = <<<<"o", "'", "b">>, glucose>>
    /\ Len(response.values) = 1
    /\ response.values[1].lits = <<<<"o", "'", "'", "b">>, glucose>>

MaxFields == 3
AvailableLimit == 12
\* ", ".join(fields[:12]): the fields the ValueError message names.
Available(fields) == SubSeq(fields, 1, Min(Len(fields), AvailableLimit))
\* Column names that no candidate list holds: f1, f2, ...
DigitChar(d) == <<SubSeq(<<"0","1","2","3","4","5","6","7","8","9">>,
                         d + 1, d + 1)[1]>>
Filler(i) ==
    <<"f">> \o (IF i >= 10 THEN DigitChar(i \div 10) ELSE << >>)
            \o DigitChar(i % 10)
FieldPool ==
    Range(_REGULATOR_IDENTIFIER_CANDIDATES)
    \cup Range(_SAMPLE_IDENTIFIER_CANDIDATES) \cup {Filler(1), Filler(2)}
\* Field lists of a table: every order of up to MaxFields distinct columns,
\* and wide tables of filler columns around the length the message cuts at,
\* alone or followed by one column of the pool.
ShortFieldLists ==
    {f \in UNION {[1..n -> FieldPool] : n \in 0..MaxFields} :
        \A i, j \in 1..Len(f) : i # j => f[i] # f[j]}
WideFieldLists ==
    LET wide(n) == [i \in 1..n |-> Filler(i + 2)]
    IN {wide(n) : n \in (AvailableLimit - 1)..(AvailableLimit + 2)}
       \cup {Append(wide(n), c) :
                n \in (AvailableLimit - 1)..(AvailableLimit + 1),
                c \in {regulator_symbol, id_, sample_id}}
FieldLists == ShortFieldLists \cup WideFieldLists

InitResolve ==
    \E fields \in FieldLists,
       helper \in {"_resolve_regulator_identifier",
                   "_resolve_sample_identifier",
                   "query._resolve_sample_identifier"} :
        body = [op |-> helper, fields |-> fields, table |-> harbison_meta]
\* The helper returns the field, or raises ValueError with the message that
\* names the table and the first fields.
ResolveOutcome(resolved, kind) ==
    IF resolved # << >>
      THEN pc' = "done" /\ response' = Returned(resolved)
      ELSE /\ pc' = "failed"
           /\ response' = ErrorResponse(
                            Err(kind, body.table, Available(body.fields)))
ApplyResolveRegulator ==
    /\ pc = "start"
    /\ body.op = "_resolve_regulator_identifier"
    /\ ResolveOutcome(_resolve_regulator_identifier(body.fields),
                      "UnresolvedRegulatorField")
    /\ HelperFrame
ApplyResolveSample ==
    /\ pc = "start"
    /\ body.op = "_resolve_sample_identifier"
    /\ ResolveOutcome(_resolve_sample_identifier(body.fields),
                      "UnresolvedSampleField")
    /\ HelperFrame
ApplyQueryResolveSample ==
    /\ pc = "start"
    /\ body.op = "query._resolve_sample_identifier"
    /\ ResolveOutcome(QueryResolveSampleIdentifier(body.fields),
                      "UnresolvedSampleField")
    /\ HelperFrame

\* The earliest entry of a preference list that is among the fields:
\* position 0 when there is none.
EarliestPosition(preference, fields) ==
    LET present == {i \in 1..Len(preference) :
                        preference[i] \in Range(fields)}
    IN IF present = {} THEN 0
       ELSE CHOOSE i \in present : \A j \in present : i <= j
RegulatorPreference ==
    <<regulator_, tf_, regulator_symbol, regulator_locus_tag, gene_symbol>>
SamplePreference == <<sample_id, sra_accession, id_>>
AppliedResolveRegulator ==
    body.op = "_resolve_regulator_identifier" /\ pc # "start"
AppliedResolveSample ==
    /\ body.op \in {"_resolve_sample_identifier",
                    "query._resolve_sample_identifier"}
    /\ pc # "start"

\* C16: _resolve_regulator_identifier returns the earliest of regulator, tf,
\* regulator_symbol, regulator_locus_tag, gene_symbol that is among the
\* fields, whatever the order of the fields; it fails with
\* UnresolvedRegulatorField exactly when none is, and the failure names at
\* most the first 12 fields.
C16_RegulatorResolution ==
    AppliedResolveRegulator =>
        LET e == EarliestPosition(RegulatorPreference, body.fields)
        IN IF e # 0
             THEN /\ pc = "done"
                  /\ response.values = RegulatorPreference[e]
             ELSE /\ pc = "failed"
                  /\ response.err.kind = "UnresolvedRegulatorField"
                  /\ Len(response.err.tables) <= 12
                  /\ \A i \in 1..Len(response.err.tables) :
                        response.err.tables[i] = body.fields[i]
C16_Witness ==
    /\ AppliedResolveRegulator
    /\ pc = "done"
    /\ body.fields = <<gene_symbol, Filler(1), tf_>>
    /\ response.values = tf_
C16_WitnessTruncated ==
    /\ AppliedResolveRegulator
    /\ pc = "failed"
    /\ Len(body.fields) > 12
    /\ Len(response.err.tables) = 12

\* C17: every copy of _resolve_sample_identifier returns the earliest of
\* sample_id, sra_accession, id that is among the fields (so a table whose
\* only identifier is `id` resolves to `id`) and fails with
\* UnresolvedSampleField exactly when none is.
C17_SampleResolution ==
    AppliedResolveSample =>
        LET e == EarliestPosition(SamplePreference, body.fields)
        IN IF e # 0
             THEN /\ pc = "done"
                  /\ response.values = SamplePreference[e]
             ELSE /\ pc = "failed"
                  /\ response.err.kind = "UnresolvedSampleField"

\* Filters of two datasets in one request, categorical and numeric, on
\* fields and with values that differ between the datasets.
MixedCategorical(ds) ==
    IF ds = harbison
      THEN {<< >>, <<CategoricalItem(carbon_source, <<glucose>>)>>,
            <<CategoricalItem(carbon_source, <<NoName>>)>>,
            <<CategoricalItem(carbon_source, <<NoName, galactose>>),
              CategoricalItem(strain_, <<glucose, <<"o", "'", "b">>>>)>>}
    ELSE {<< >>, <<CategoricalItem(note_, <<seven>>)>>,
          <<CategoricalItem(note_, <<NoName>>)>>}
MixedNumeric(ds) ==
    LET none == [has_min |-> FALSE, min_value |-> 0, has_max |-> FALSE,
                 max_value |-> 0]
    IN IF ds = harbison
         THEN {<< >>, <<NumericItem(effect_, none)>>,
               <<NumericItem(effect_, [none EXCEPT !.has_min = TRUE])>>,
               <<NumericItem(effect_, [none EXCEPT !.has_min = TRUE,
                                         !.has_max = TRUE, !.max_value = 1]),
                 NumericItem(pvalue_, [none EXCEPT !.has_max = TRUE,
                                         !.max_value = 2])>>}
       ELSE {<< >>, <<NumericItem(score_, none)>>,
             <<NumericItem(score_, [none EXCEPT !.has_max = TRUE,
                                      !.max_value = 2])>>}
InitWhereMixed ==
    \E hc \in MixedCategorical(harbison), hn \in MixedNumeric(harbison),
       rc \in MixedCategorical(rossi_combined),
       rn \in MixedNumeric(rossi_combined),
       order \in BOOLEAN,
       dataset_name \in {harbison, rossi_combined, nonexistent} :
        LET flip(pair) == IF order THEN pair ELSE <<pair[2], pair[1]>>
        IN body = [op |-> "_build_where_sql", dataset_name |-> dataset_name,
                   filters |-> flip(<<[key |-> harbison, items |-> hc],
                                      [key |-> rossi_combined, items |-> rc]>>),
                   numeric_filters |->
                        flip(<<[key |-> harbison, items |-> hn],
                               [key |-> rossi_combined, items |-> rn]>>)]

\* The entries of a mapping under one key, and the clauses the named
\* dataset's own filters call for.
ItemsOf(mapping, key) ==
    LET own == {e \in 1..Len(mapping) : mapping[e].key = key}
    IN IF own = {} THEN << >> ELSE mapping[CHOOSE e \in own : TRUE].items
OwnCategorical == ItemsOf(body.filters, body.dataset_name)
OwnNumeric == ItemsOf(body.numeric_filters, body.dataset_name)
EmittedCount ==
    Cardinality({i \in 1..Len(OwnCategorical) :
                    \E v \in Range(OwnCategorical[i].values) : v # << >>})
    + SumBounds(OwnNumeric)
BuiltWhere == body.op = "_build_where_sql" /\ pc = "done"

\* C24: _build_where_sql(body, d) returns the empty string exactly when d
\* has no categorical field with a non-empty value and no numeric field with
\* a bound; otherwise one WHERE followed by all emitted clauses with AND
\* between them; filters keyed by another dataset contribute nothing.
C24_WhereText ==
    BuiltWhere =>
        LET text == response.summary
            emitted == response.values
            n == EmittedCount
        IN /\ Len(emitted) = n
           /\ text = << >> <=> n = 0
           /\ n > 0 =>
                /\ Len(text) = 2 * n
                /\ text[1] = Keyword("WHERE")
                /\ \A k \in 1..n : text[2 * k] = emitted[k]
                /\ \A k \in 2..n : text[2 * k - 1] = Keyword("AND")
           /\ \A k \in 1..n :
                \/ \E i \in 1..Len(OwnCategorical) :
                        /\ emitted[k].cmp = "IN"
                        /\ emitted[k].field = OwnCategorical[i].field
                        /\ \A l \in 1..Len(emitted[k].lits) :
                            Unescape(emitted[k].lits[l])
                                \in Range(OwnCategorical[i].values)
                \/ \E i \in 1..Len(OwnNumeric) :
                        /\ emitted[k].field = OwnNumeric[i].field
                        /\ \/ /\ emitted[k].cmp = ">="
                              /\ OwnNumeric[i].has_min
                              /\ emitted[k].num = OwnNumeric[i].min_value
                           \/ /\ emitted[k].cmp = "<="
                              /\ OwnNumeric[i].has_max
                              /\ emitted[k].num = OwnNumeric[i].max_value
C24_Witness ==
    /\ BuiltWhere
    /\ body.dataset_name = rossi_combined
    /\ Len(body.filters) = 2 /\ Len(body.numeric_filters) = 2
    /\ body.filters[1].key = harbison
    /\ body.numeric_filters[1].key = harbison
    /\ Len(body.filters[1].items) = 2
    /\ Len(body.numeric_filters[1].items) = 2
    /\ Len(response.summary) = 4
    /\ response.summary[3] = Keyword("AND")
    /\ response.summary[4].field = score_
C24_WitnessEmpty ==
    /\ BuiltWhere
    /\ body.dataset_name = rossi_combined
    /\ Len(body.filters) = 2 /\ Len(body.numeric_filters) = 2
    /\ body.filters[1].key = harbison
    /\ body.numeric_filters[1].key = harbison
    /\ Len(body.filters[1].items) = 2
    /\ OwnCategorical = <<CategoricalItem(note_, <<NoName>>)>>
    /\ OwnNumeric # << >>
    /\ response.summary = << >>

(***************************************************************************)
(* The payload of sync_active_set_config: the YAML dictionary with its     *)
(* repositories, each a dictionary with an optional "dataset" dictionary   *)
(* of config entries and possibly other keys, or something that is not a   *)
(* dictionary.                                                             *)
(***************************************************************************)
Repos == {"BrentLab/harbison_2004", "BrentLab/rossi_2021", "BrentLab/other"}
\* The config names a repository of the modelled files may list.
ConfigNames(repo) ==
    {k[2] : k \in {m \in MANAGED_DATASET_KEYS \cup {UnmanagedKey} : m[1] = repo}}
        \cup (IF repo = "BrentLab/harbison_2004" THEN {UnmanagedKey[2]} ELSE {})
NoEntries(repo) == [c \in ConfigNames(repo) |-> "absent"]
NoDataset(repo) == [kind |-> "absent", entries |-> NoEntries(repo)]
AbsentRepo(repo) == [kind |-> "absent", extra |-> FALSE, dataset |-> NoDataset(repo)]
EmptyRepo(repo) == [AbsentRepo(repo) EXCEPT !.kind = "dict"]
DatasetCfgs(repo) ==
    {NoDataset(repo), [NoDataset(repo) EXCEPT !.kind = "scalar"]}
        \cup {[kind |-> "dict", entries |-> e] :
                e \in [ConfigNames(repo) -> {"absent", "orig"}]}
RepoCfgs(repo) ==
    {AbsentRepo(repo), [AbsentRepo(repo) EXCEPT !.kind = "scalar"]}
        \cup {[kind |-> "dict", extra |-> x, dataset |-> d] :
                x \in BOOLEAN, d \in DatasetCfgs(repo)}

\* _prune_managed_dataset_entries on one repository's entry: entries that
\* are not dictionaries are skipped, managed config names are deleted, an
\* emptied "dataset" is popped and an emptied repository deleted.
PruneRepo(repo, repo_cfg) ==
    IF repo_cfg.kind # "dict" THEN repo_cfg
    ELSE IF repo_cfg.dataset.kind # "dict" THEN repo_cfg
    ELSE LET dataset_cfg ==
                 [c \in ConfigNames(repo) |->
                    IF <<repo, c>> \in MANAGED_DATASET_KEYS THEN "absent"
                    ELSE repo_cfg.dataset.entries[c]]
         IN IF \E c \in ConfigNames(repo) : dataset_cfg[c] # "absent"
              THEN [repo_cfg EXCEPT !.dataset.entries = dataset_cfg]
            ELSE IF repo_cfg.extra
              THEN [repo_cfg EXCEPT !.dataset = NoDataset(repo)]
            ELSE AbsentRepo(repo)
PrunePayload(repositories) ==
    [repo \in Repos |-> PruneRepo(repo, repositories[repo])]

\* _append_selected_datasets: setdefault on the repository and on its
\* "dataset", then the primary entry and each supplemental one. setdefault
\* on, or item assignment to, something that is not a dictionary raises.
RepoOf(id) == CHOOSE repo \in Repos : \E k \in KeysOf(id) : k[1] = repo
RECURSIVE AppendPayload(_, _)
AppendPayload(repositories, selected) ==
    IF selected = << >> THEN [ok |-> TRUE, repositories |-> repositories]
    ELSE LET item == Head(selected)
             repo == RepoOf(item)
             repo_cfg == IF repositories[repo].kind = "absent"
                           THEN EmptyRepo(repo) ELSE repositories[repo]
         IN IF repo_cfg.kind = "scalar" \/ repo_cfg.dataset.kind = "scalar"
              THEN [ok |-> FALSE, repositories |-> repositories]
              ELSE AppendPayload(
                    [repositories EXCEPT ![repo] =
                        [repo_cfg EXCEPT
                            !.dataset.kind = "dict",
                            !.dataset.entries =
                                [c \in ConfigNames(repo) |->
                                    IF <<repo, c>> \in KeysOf(item)
                                      THEN "catalog" ELSE @[c]]]],
                    Tail(selected))

InitSyncPayload ==
    \E ids \in SyncBodies,
       h \in RepoCfgs("BrentLab/harbison_2004"),
       ro \in RepoCfgs("BrentLab/rossi_2021"),
       o \in RepoCfgs("BrentLab/other") :
        body = [op |-> "sync_active_set_config", ids |-> ids,
                repositories |->
                    [repo \in Repos |->
                        CASE repo = "BrentLab/harbison_2004" -> h
                          [] repo = "BrentLab/rossi_2021" -> ro
                          [] OTHER -> o]]
\* sync_active_set_config up to _write_metadata_config: the payload written.
ApplySyncPayload ==
    /\ pc = "start"
    /\ body.op = "sync_active_set_config"
    /\ LET s == SelectItems(body.ids, {}, << >>)
           written == AppendPayload(PrunePayload(body.repositories), s.items)
       IN IF s.ok /\ written.ok
            THEN /\ pc' = "done"
                 /\ response' = [Returned(s.items) EXCEPT
                                    !.summary = written.repositories]
            ELSE /\ pc' = "failed"
                 /\ response' = ErrorResponse(
                        Err("ValueError", NoName, << >>))
    /\ HelperFrame

\* The managed keys a payload lists, and one config entry of it.
ManagedPresent(repositories) ==
    {k \in MANAGED_DATASET_KEYS :
        /\ repositories[k[1]].kind = "dict"
        /\ repositories[k[1]].dataset.kind = "dict"
        /\ repositories[k[1]].dataset.entries[k[2]] # "absent"}
ManagedRepos == {k[1] : k \in MANAGED_DATASET_KEYS}
SyncWritten == body.op = "sync_active_set_config" /\ pc = "done"
UnmanagedEntriesKept ==
    \A repo \in Repos : \A c \in ConfigNames(repo) :
        <<repo, c>> \notin MANAGED_DATASET_KEYS =>
            response.summary[repo].dataset.entries[c]
                = body.repositories[repo].dataset.entries[c]
UnmanagedReposKept ==
    \A repo \in Repos \ ManagedRepos :
        response.summary[repo] = body.repositories[repo]
ManagedAsSelected ==
    ManagedPresent(response.summary)
        = UNION {KeysOf(response.values[i]) : i \in 1..Len(response.values)}

\* What does hold of the written payload: the managed keys are exactly those
\* of the selection, and every config entry that is not managed is kept.
SyncPayloadKeys == SyncWritten => ManagedAsSelected /\ UnmanagedEntriesKept
SyncPayloadKeysWitness ==
    /\ SyncWritten
    /\ Len(response.values) = 2
    /\ ManagedPresent(body.repositories) # {}
    /\ body.repositories["BrentLab/other"].dataset.entries[UnmanagedKey[2]] = "orig"

\* C28: after a successful reconfiguration with selection S the written
\* configuration lists, among the managed keys, exactly the primary and
\* supplemental configs of the items of S, and every repository entry and
\* dataset entry that is not managed is as it was before the request.
C28_SyncPayloadFrame ==
    SyncWritten =>
        /\ ManagedAsSelected
        /\ UnmanagedEntriesKept
        /\ UnmanagedReposKept

(***************************************************************************)
(* The aggregate of corr_sql: CORR(val_a, val_b) over the rows of `pairs`, *)
(* the CROSS JOIN of the two keys' non-null values.                        *)
(***************************************************************************)
MaxVector == 2
MaxSample == 1
Samples == (0 - MaxSample)..MaxSample
Vectors == UNION {[1..n -> Samples] : n \in 1..MaxVector}
\* a.value AS val_a, b.value AS val_b FROM (...) a CROSS JOIN (...) b
ZipJoin(a, b) ==
    [k \in 1..Min(Len(a), Len(b)) |-> [val_a |-> a[k], val_b |-> b[k]]]
CrossJoin(a, b) ==
    [k \in 1..(Len(a) * Len(b)) |->
        [val_a |-> a[((k - 1) \div Len(b)) + 1],
         val_b |-> b[((k - 1) % Len(b)) + 1]]]
RECURSIVE SumSeq(_)
SumSeq(terms) ==
    IF terms = << >> THEN 0 ELSE Head(terms) + SumSeq(Tail(terms))
\* The sums the aggregate is made of, over the rows of `pairs`.
Sums(pairs) ==
    [n |-> Len(pairs),
     sum_x |-> SumSeq([k \in DOMAIN pairs |-> pairs[k].val_a]),
     sum_y |-> SumSeq([k \in DOMAIN pairs |-> pairs[k].val_b]),
     sum_xy |-> SumSeq([k \in DOMAIN pairs |-> pairs[k].val_a * pairs[k].val_b]),
     sum_xx |-> SumSeq([k \in DOMAIN pairs |-> pairs[k].val_a * pairs[k].val_a]),
     sum_yy |-> SumSeq([k \in DOMAIN pairs |-> pairs[k].val_b * pairs[k].val_b])]
CovarianceNumerator(m) == m.n * m.sum_xy - m.sum_x * m.sum_y
\* CORR: covariance over the product of the deviations. Without variance in
\* a column the quotient is undefined, NULL or NaN by the engine build; a
\* correlation that is not zero is kept as its numerator.
CorrAggregate(pairs) ==
    LET m == Sums(pairs)
        num == CovarianceNumerator(m)
        var_x == m.n * m.sum_xx - m.sum_x * m.sum_x
        var_y == m.n * m.sum_yy - m.sum_y * m.sum_y
    IN IF var_x = 0 \/ var_y = 0 THEN {NullV, NaNV}
       ELSE IF num = 0 THEN {IntV(0)}
       ELSE {[t |-> "float", s |-> << >>, n |-> num]}

InitCorr == \E a \in Vectors, b \in Vectors :
    body = [op |-> "corr_sql", a |-> a, b |-> b]
\* corr_df = vdb.query(corr_sql) and the value of the cell.
ApplyCorr ==
    /\ pc = "start"
    /\ body.op = "corr_sql"
    /\ LET pairs == CrossJoin(body.a, body.b) IN
       \E outcome \in CorrAggregate(pairs) :
            response' = [Returned(<<Correlation(outcome)>>) EXCEPT
                            !.entries = pairs,
                            !.summary = Sums(pairs)]
    /\ pc' = "done"
    /\ HelperFrame

CorrApplied == body.op = "corr_sql" /\ pc = "done"
\* C29: the aggregate of a pair of distinct keys runs over the full cross
\* product of the two value vectors, N = |a| * |b| rows with every value of
\* one beside every value of the other; for all vectors of bounded integers
\* the covariance numerator N * sum(xy) - sum(x) * sum(y) is zero, and the
\* cell's value is 0 whatever the values are.
C29_CrossProductCovariance ==
    CorrApplied =>
        /\ response.summary.n = Len(body.a) * Len(body.b)
        /\ \A i \in 1..Len(body.a) : \A j \in 1..Len(body.b) :
                Cardinality({k \in 1..Len(response.entries) :
                        response.entries[k]
                            = [val_a |-> body.a[i], val_b |-> body.b[j]]})
                    = Cardinality({p \in (1..Len(body.a)) \X (1..Len(body.b)) :
                        body.a[p[1]] = body.a[i] /\ body.b[p[2]] = body.b[j]})
        /\ CovarianceNumerator(response.summary) = 0
        /\ response.values = <<IntV(0)>>
\* C29 witness: two different vectors, each with variance, whose products
\* do not sum to zero.
C29_Witness ==
    /\ CorrApplied
    /\ Len(body.a) = 2 /\ body.a[1] # body.a[2]
    /\ Len(body.b) = 2 /\ body.b[1] # body.b[2]
    /\ Range(body.a) # Range(body.b)
    /\ response.summary.sum_xy # 0
    /\ response.summary.n = 4

InitHelpers ==
    /\ HelperIdle
    /\ \/ InitValidate
       \/ InitWhereNumeric
       \/ InitWhereCategorical
       \/ InitWhereMixed
       \/ InitResolve
       \/ InitSyncPayload
       \/ InitCorr
NextHelpers ==
    \/ ApplyValidate
    \/ ApplyBuildWhere
    \/ ApplyResolveRegulator
    \/ ApplyResolveSample
    \/ ApplyQueryResolveSample
    \/ ApplySyncPayload
    \/ ApplyCorr
SpecHelpers == InitHelpers /\ [][NextHelpers]_vars

====
